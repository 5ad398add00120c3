------------------------------- MODULE Namespaces -------------------------------
(***************************************************************************)
(* Namespaces in one store (packages/store/src/namespace.ts): a handle of  *)
(* a namespace puts it before every key, collection and idempotency key,   *)
(* and before every version token it hands out; it takes them off what it  *)
(* answers. Handles of several namespaces use one store at once. What is   *)
(* said of keys goes for collections, which are bound in the same way.     *)
(*                                                                         *)
(* Strings are sequences of code units.                                    *)
(***************************************************************************)
EXTENDS Naturals, Sequences

CONSTANTS
  Spaces,      \* the namespaces in use
  Names,       \* keys that clients use: any strings
  Ids,         \* those of them that they also use as idempotency keys
  Values,
  Versions,    \* a sequence of the tokens that the store mints, as strings; bounds the writes
  Missing      \* no row, receipt, condition, token

String == Seq(Nat)

SEPARATOR == 31

NUL == 0

(* assertNamespace *)
IsNamespace(s) == s # <<>> /\ \A i \in 1 .. Len(s) : s[i] # SEPARATOR

VARIABLES
  rows,      \* per physical key, [value, version]
  minted,    \* how many versions the store has handed out
  receipts,  \* per physical idempotency key, [request, version]
  given,     \* the tokens that clients hold, [ns, token]: of which namespace
  last       \* the last call: [ns, kind, key, token, answer, names]

spaceVars == <<rows, minted, receipts, given, last>>

Joined(left, unit, right) == left \o <<unit>> \o right

(* A plausible slip: nothing between the namespace and the key. *)
Adjoined(ns, name) == ns \o name

Prefix(ns, name) == Joined(ns, SEPARATOR, name)

Unbind(ns, physical) == SubSeq(physical, Len(ns) + 2, Len(physical))

BindVersion(ns, version) == Joined(ns, NUL, version)

StartsWith(s, start) == Len(start) <= Len(s) /\ SubSeq(s, 1, Len(start)) = start

IsOwnToken(ns, token) == StartsWith(token, Joined(ns, NUL, <<>>))

UnbindVersion(ns, token) == SubSeq(token, Len(ns) + 2, Len(token))

(* What is asked of the names: the store's own tokens hold no NUL. *)
WellNamed ==
  /\ Spaces \subseteq String /\ \A n \in Spaces : IsNamespace(n)
  /\ Names \subseteq String /\ Ids \subseteq Names
  /\ Versions \in Seq(String)
  /\ \A v \in DOMAIN Versions : \A i \in 1 .. Len(Versions[v]) : Versions[v][i] # NUL
  /\ Missing \notin Ids
  /\ \A value \in Values, v \in DOMAIN Versions : [value |-> value, version |-> Versions[v]] # Missing
  /\ \A n \in Spaces, v \in DOMAIN Versions : BindVersion(n, Versions[v]) # Missing

Physical == {Prefix(n, k) : n \in Spaces, k \in Names}

Init ==
  /\ rows = [p \in Physical |-> Missing]
  /\ minted = 0
  /\ receipts = [p \in Physical |-> Missing]
  /\ given = {}
  /\ last = [ns |-> Missing, kind |-> Missing, key |-> Missing, token |-> Missing, answer |-> Missing, names |-> {}]

Call(ns, kind, key, token, answer) ==
  [ns |-> ns, kind |-> kind, key |-> key, token |-> token, answer |-> answer, names |-> {}]

Write(p, v) == rows' = [rows EXCEPT ![p] = [value |-> v, version |-> Versions[minted + 1]]]

(* store.set, store.put *)
Set(ns, k, v) ==
  /\ minted < Len(Versions)
  /\ Write(Prefix(ns, k), v) /\ minted' = minted + 1
  /\ last' = Call(ns, "set", k, Missing, "done")
  /\ UNCHANGED <<receipts, given>>

(* store.delete, store.remove *)
Delete(ns, k) ==
  /\ rows' = [rows EXCEPT ![Prefix(ns, k)] = Missing]
  /\ last' = Call(ns, "delete", k, Missing, "done")
  /\ UNCHANGED <<minted, receipts, given>>

(* A token goes to the client, which may show it to any namespace. *)
HandOut(ns, kind, k, answer, version) ==
  /\ given' = given \cup {[ns |-> ns, token |-> BindVersion(ns, version)]}
  /\ last' = Call(ns, kind, k, BindVersion(ns, version), answer)

GetVersioned(ns, k) ==
  /\ rows[Prefix(ns, k)] # Missing
  /\ HandOut(ns, "get", k, "found", rows[Prefix(ns, k)].version)
  /\ UNCHANGED <<rows, minted, receipts>>

(* keys(prefix): those that begin with it, as the namespace knows them,
   over a store that compares as the reference does. *)
Keys(ns, start) ==
  /\ last' = [Call(ns, "keys", start, Missing, "done") EXCEPT
       !.names = {Unbind(ns, p) : p \in {q \in Physical : rows[q] # Missing /\ StartsWith(q, Prefix(ns, start))}}]
  /\ UNCHANGED <<rows, minted, receipts, given>>

(* A token of another namespace is refused before the store sees it. *)
Refuse(ns, k, token) ==
  /\ token # Missing /\ ~IsOwnToken(ns, token)
  /\ last' = Call(ns, "mutate", k, token, "refused")
  /\ UNCHANGED <<rows, minted, receipts, given>>

Bound(ns, k, token, v) ==
  [key |-> Prefix(ns, k), value |-> v, version |-> IF token = Missing THEN Missing ELSE UnbindVersion(ns, token)]

(* An idempotency key that served answers again, whoever held the handle. *)
Replay(ns, k, token, v, id) ==
  /\ id # Missing /\ (token # Missing => IsOwnToken(ns, token))
  /\ receipts[Prefix(ns, id)] # Missing
  /\ IF receipts[Prefix(ns, id)].request = Bound(ns, k, token, v)
     THEN HandOut(ns, "mutate", k, "replayed", receipts[Prefix(ns, id)].version)
     ELSE last' = Call(ns, "mutate", k, token, "idempotency-conflict") /\ UNCHANGED given
  /\ UNCHANGED <<rows, minted, receipts>>

Holds(p, version) == version # Missing => rows[p] # Missing /\ rows[p].version = version

Apply(ns, k, token, v, id) ==
  /\ token # Missing => IsOwnToken(ns, token)
  /\ id # Missing => receipts[Prefix(ns, id)] = Missing
  /\ LET request == Bound(ns, k, token, v) IN
     /\ Holds(request.key, request.version) /\ minted < Len(Versions)
     /\ Write(request.key, v) /\ minted' = minted + 1
     /\ receipts' = IF id = Missing THEN receipts
                    ELSE [receipts EXCEPT ![Prefix(ns, id)] = [request |-> request, version |-> Versions[minted + 1]]]
     /\ HandOut(ns, IF token = Missing THEN "write" ELSE "exchange", k, "applied", Versions[minted + 1])

(* What the store observed instead is answered as a token of the namespace. *)
Conflict(ns, k, token, v, id) ==
  /\ token # Missing /\ IsOwnToken(ns, token)
  /\ id # Missing => receipts[Prefix(ns, id)] = Missing
  /\ LET request == Bound(ns, k, token, v) IN
     /\ ~Holds(request.key, request.version)
     /\ IF rows[request.key] = Missing
        THEN last' = Call(ns, "mutate", k, token, "conflict") /\ UNCHANGED given
        ELSE HandOut(ns, "mutate", k, "observed", rows[request.key].version)
  /\ UNCHANGED <<rows, minted, receipts>>

Mutate(ns, k, token, v, id) ==
  \/ Refuse(ns, k, token) \/ Replay(ns, k, token, v, id)
  \/ Apply(ns, k, token, v, id) \/ Conflict(ns, k, token, v, id)

Next ==
  \E ns \in Spaces, k \in Names :
    \/ \E v \in Values : Set(ns, k, v)
    \/ Delete(ns, k)
    \/ GetVersioned(ns, k)
    \/ Keys(ns, k)
    \/ \E token \in {g.token : g \in given} \cup {Missing}, v \in Values, id \in Ids \cup {Missing} :
         Mutate(ns, k, token, v, id)

Spec == Init /\ [][Next]_spaceVars

--------------------
(* Properties *)

View(n) == [k \in Names |-> rows[Prefix(n, k)]]

Answered(n) == [id \in Names |-> receipts[Prefix(n, id)]]

Minted == {Versions[i] : i \in 1 .. minted}

(* Rows and receipts hold versions that were minted. *)
TypeOK ==
  /\ minted \in 0 .. Len(Versions)
  /\ rows \in [Physical -> [value : Values, version : Minted] \cup {Missing}]
  /\ \A p \in Physical : receipts[p] # Missing => receipts[p].version \in Minted

(* Each namespace is a store of its own: what is done through the handle
   of one changes nothing that another sees, whatever its name is, and
   whatever separators the keys hold. *)
StaysWithin == \A n \in Spaces : n # last'.ns => View(n)' = View(n) /\ Answered(n)' = Answered(n)

Isolation == [][StaysWithin]_spaceVars

(* keys names what the namespace holds, and nothing else. (Of stores whose
   keys(prefix) compares as the reference's does. SQLite and libSQL take
   letters in another case for the same: see Queries.) *)
KeysAreOwn ==
  last.kind = "keys" =>
    last.names = {k \in Names : View(last.ns)[k] # Missing /\ StartsWith(k, last.key)}

(* A token that a client was just given is of use: the namespace that gave
   it takes it for the version its row has, also when a conflict brought it. *)
TokensServe ==
  last.answer \in {"found", "applied", "observed"} =>
    /\ IsOwnToken(last.ns, last.token)
    /\ Holds(Prefix(last.ns, last.key), UnbindVersion(last.ns, last.token))
===============================================================================
