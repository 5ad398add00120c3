------------------------------ MODULE SqliteCases ------------------------------
(* What the processes p1 and p2 do with collections and search indexes of the
   names n1 and n2, which have one hash (see SqliteTables); who appends to a
   log, mails from it and reads it (see Logs); and what they ask of the
   statements of one file (see Statements). *)
EXTENDS Marks, Naturals, Sequences, TLC

TableNames == {"n1", "n2"}

LOCAL Op(op, n) == [op |-> op, name |-> n]

LOCAL Own(ops) == [ends |-> "none", ops |-> ops]

LOCAL Transaction(ends, ops) == [ends |-> ends, ops |-> ops]

LOCAL T(i) == <<"collection", "h", i>>

LOCAL Unclaimed == [k \in {"collection", "search"} \X TableNames |-> Missing]

LOCAL Empty == [registry |-> Unclaimed, tables |-> {}, rows |-> {}, schemas |-> {}]

(* A table that is claimed and one that is nobody's. *)
LOCAL Strays == [registry |-> [Unclaimed EXCEPT ![<<"collection", "n1">>] = T(1)], tables |-> {T(1), T(2)},
                 rows |-> {<<T(1), "n1">>, <<T(2), "?">>}, schemas |-> {}]

LOCAL Setup(libsql, b1, b2, d) ==
  [libsql |-> libsql, blocks |-> "p1" :> b1 @@ "p2" :> b2, disk |-> d, hash |-> "n1" :> "h" @@ "n2" :> "h"]

SqliteTablesSetups ==
 { \* both names are used for the first time by both processes
   Setup({}, <<Own(<<Op("put", "n1"), Op("read", "n2")>>)>>, <<Own(<<Op("put", "n2"), Op("put", "n1")>>)>>, Empty),
   \* a transaction that created a table rolls back
   Setup({}, <<Transaction("rollback", <<Op("put", "n1")>>), Own(<<Op("read", "n1")>>)>>, <<Own(<<Op("put", "n2")>>)>>, Empty),
   \* a table that nobody claims is in the way
   Setup({}, <<Transaction("commit", <<Op("read", "n1"), Op("put", "n1")>>), Own(<<Op("put", "n1")>>)>>,
         <<Own(<<Op("peek", "n1"), Op("put", "n2")>>)>>, Strays),
   \* p2 uses libSQL
   Setup({"p2"}, <<Own(<<Op("put", "n1"), Op("read", "n2")>>)>>,
         <<Transaction("rollback", <<Op("put", "n2")>>), Own(<<Op("read", "n2"), Op("put", "n1")>>)>>, Empty),
   \* search indexes, and one first made in a transaction that rolls back
   Setup({}, <<Own(<<Op("index", "n1"), Op("search", "n2")>>)>>,
         <<Own(<<Op("index", "n2")>>), Transaction("commit", <<Op("index", "n1")>>)>>, Empty),
   Setup({}, <<Transaction("rollback", <<Op("index", "n1")>>), Own(<<Op("index", "n1")>>)>>, <<>>, Empty) }

--------------------
LOCAL Unit(process, adapter, kind, mails) ==
  [process |-> process, adapter |-> adapter, kind |-> kind, mails |-> mails]

LOCAL Here(kind) == Unit("p1", "a", kind, FALSE)

LOCAL Beside(kind) == Unit("p1", "b", kind, FALSE)

LOCAL There(kind) == Unit("p2", "c", kind, FALSE)

LOCAL Mailer(u) == [u EXCEPT !.mails = TRUE]

LOCAL Several(memory, faults, x, y, z) ==
  { [memory |-> memory, faults |-> faults, units |-> "x" :> one @@ "y" :> two @@ "z" :> three] :
      one \in x, two \in y, three \in z }

LOCAL Both(faults, x, y) ==
  { [memory |-> FALSE, faults |-> faults, units |-> "x" :> one @@ "y" :> two] : one \in x, two \in y }

LogSetups ==
  Several(FALSE, FALSE, {Here("transaction")}, {Beside("direct"), Here("append")}, {Here("peek"), Beside("tail")})
  \cup Both(FALSE, {Here("transaction")}, {Beside("transaction"), There("deferred"), There("tail")})
  \cup Several(FALSE, FALSE, {Here("deferred"), Here("immediate"), Here("append")},
               {Mailer(Beside("immediate"))}, {Mailer(There("deferred"))})
  \cup Both(TRUE, {Here("transaction")}, {There("immediate"), Beside("transaction")})
  \cup Several(FALSE, TRUE, {Here("append")}, {There("append")}, {Beside("immediate")})
  \cup Several(TRUE, FALSE, {Here("immediate")}, {Here("direct")}, {Here("peek"), Mailer(Here("immediate"))})

--------------------
LOCAL Request(kind, statement, key, expected, status, origin, successor, sound) ==
  [kind |-> kind, statement |-> statement, key |-> key, expected |-> expected, status |-> status,
   origin |-> origin, successor |-> successor, sound |-> sound]

LOCAL AdmitAs(s, key, origin) == Request("admit", s, key, 0, Missing, origin, FALSE, TRUE)

LOCAL ReviseTo(s, key, expected, status) == Request("revise", s, key, expected, status, Missing, FALSE, TRUE)

LOCAL Vouch(s, key, expected, status) == Request("revise", s, key, expected, status, "author", FALSE, TRUE)

LOCAL Supersede(s, key, expected) == Request("revise", s, key, expected, "superseded", Missing, TRUE, TRUE)

LOCAL RetractIt(s, key, expected, origin) == Request("retract", s, key, expected, Missing, origin, FALSE, TRUE)

LOCAL Unsound(r) == [r EXCEPT !.sound = FALSE]

LOCAL Backfill(status) == Request("backfill", "s1", "b", 0, status, Missing, FALSE, TRUE)

LOCAL Nothing ==
  [revisions |-> {}, heads |-> "s1" :> 0 @@ "s2" :> 0, receipts |-> {}, conflicts |-> {},
   backfills |-> "b" :> Missing]

LOCAL Row(r, result) == [key |-> r.key, kind |-> r.kind, print |-> [of |-> r, keys |-> "by locale"], result |-> result]

(* What an earlier release left: a claim, its receipt, and a conflict. *)
LOCAL Earlier ==
  [Nothing EXCEPT
     !.revisions = {[statement |-> "s1", revision |-> 1, status |-> "accepted", origin |-> "author", successor |-> FALSE]},
     !.heads["s1"] = 1,
     !.receipts = {Row(AdmitAs("s1", "k1", "author"),
                       [code |-> "committed", reason |-> Missing, revision |-> 1, status |-> "accepted"])},
     !.conflicts = {Row(AdmitAs("s2", "k1", "author"),
                        [code |-> "idempotency-conflict", reason |-> "idempotency-conflict", revision |-> 0,
                         status |-> Missing])}]

LOCAL Desk(db, w1, w2, decisions, faults) ==
  [db |-> db, work |-> "p1" :> w1 @@ "p2" :> w2, decisions |-> decisions, faults |-> faults]

StatementsSetups ==
 { \* two writers of one claim, with stalls and crashes
   Desk(Nothing, <<AdmitAs("s1", "k1", "author"), ReviseTo("s1", "k2", 1, Missing)>>,
         <<AdmitAs("s1", "k1", "author"), RetractIt("s1", "k3", 1, "model")>>, {"accepted"}, {"stall", "die"}),
   \* one key for two claims, of an authority that changes its mind
   Desk(Nothing, <<AdmitAs("s1", "k1", "author"), AdmitAs("s1", "k1", "author")>>,
         <<AdmitAs("s2", "k1", "author"), AdmitAs("s2", "k1", "author")>>, {"accepted", "rejected", "refuse"}, {"stall"}),
   \* requests that an earlier release answered, and backfills
   Desk(Earlier, <<AdmitAs("s1", "k1", "author"), Backfill("running"), AdmitAs("s2", "k1", "author")>>,
         <<AdmitAs("s2", "k1", "author"), AdmitAs("s2", "k1", "model"), Supersede("s1", "k2", 1)>>, {"accepted"}, {"die"}),
   \* what a model said, revised and vouched for
   Desk(Nothing, <<AdmitAs("s1", "k1", "model"), ReviseTo("s1", "k2", 1, "accepted"), Vouch("s1", "k3", 2, Missing)>>,
         <<Unsound(AdmitAs("s1", "k4", "author")), Supersede("s1", "k5", 3), ReviseTo("s1", "k6", 4, "accepted")>>,
         {"accepted"}, {}),
   \* an end without a successor, and revisions after it
   Desk(Earlier, <<ReviseTo("s1", "k2", 1, "superseded"), Supersede("s1", "k3", 1), ReviseTo("s1", "k4", 2, "accepted")>>,
         <<ReviseTo("s1", "k5", 1, "proposed"), RetractIt("s1", "k6", 2, "author")>>, {"proposed", "superseded"}, {"stall"}) }
===============================================================================
