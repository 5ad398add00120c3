----------------------------- MODULE FixtureCases -----------------------------
(* The layers, types and programs that Fixtures is checked on. *)
EXTENDS Marks, Integers, Sequences, TLC

LOCAL Theme(id) == <<1, id>>

LOCAL T(ext, document, merge, at) == [ext |-> ext, document |-> document, merge |-> merge, at |-> at]

LOCAL At(a, b, c) == 1 :> a @@ 2 :> b @@ 3 :> c

LOCAL N(n) == <<"n", n>>

LOCAL Source(name, kind, priority, order, down) == [name |-> name, kind |-> kind, priority |-> priority, order |-> order, down |-> down]

LOCAL Full(body) == [patch |-> Missing, body |-> body]

LOCAL Patch(r, body) == [patch |-> r, body |-> body]

LOCAL One(doc) == "json" :> ("it" :> doc) @@ "yaml" :> ("it" :> doc)

LOCAL Ref(r) == <<"ref", r>>

LOCAL Setup(types, sources, fs, w1, w2) ==
  [types |-> types, sources |-> sources, files |-> fs, work |-> "h1" :> w1 @@ "h2" :> w2]

LOCAL Load(r) == [op |-> "load", ref |-> r]

LOCAL Materialize(r) == [op |-> "materialize", ref |-> r]

LOCAL Invalidate(r) == [op |-> "invalidate", ref |-> r]

LOCAL Drop(s) == [op |-> "drop", source |-> s]

LOCAL Edit(s, p, c) == [op |-> "edit", source |-> s, path |-> p, content |-> c]

LOCAL Validate == [op |-> "validate"]

LOCAL Seed(t, only) == [op |-> "seed", ref |-> <<t, Missing>>, insertOnly |-> only]

LOCAL List(t) == [op |-> "list", ref |-> <<t, Missing>>]

LOCAL P(k) == <<k>>

LOCAL Q(k, l) == <<k, l>>

LOCAL Themes(merge) == <<T("json", FALSE, merge, At("a", "b", "c"))>>

LOCAL Base == Source("base", "fs", 0, 2, FALSE)

LOCAL App(p) == Source("app", "store", p, 3, FALSE)

LOCAL User(p) == Source("user", "fs", p, 1, FALSE)

LOCAL Gone == Missing

LOCAL Files(base, app, user) == "base" :> base @@ "app" :> app @@ "user" :> user

LOCAL Plain == P("n") :> N(1) @@ Q("o", "x") :> N(1) @@ Q("o", "y") :> N(1) @@ P("r") :> Ref(Theme("b"))

FixtureSetups ==
 { \* two types share a path
   Setup(<<T("json", FALSE, "deep", At("a", Gone, Gone)), T("yaml", FALSE, "deep", At("a", Gone, Gone))>>, <<Base>>,
     Files(At("json" :> ("it" :> Full(P("n") :> N(1))) @@ "yaml" :> ("it" :> Full(P("n") :> N(2))), Gone, Gone), At(Gone, Gone, Gone), At(Gone, Gone, Gone)),
     <<Load(<<1, "a">>)>>, <<Load(<<2, "a">>)>>),
   \* patches of three layers merged; one is edited and its caches dropped
   Setup(Themes("deep"), <<User(2), Base, App(1)>>,
     Files(At(One(Full(Plain)), One(Full(P("n") :> N(0))), Gone),
           At(One(Patch(Theme("a"), Q("o", "x") :> N(2))), Gone, Gone),
           At(One(Patch(Theme("a"), Q("o", "x") :> N(3))), Gone, Gone)),
     <<Materialize(Theme("a")), Load(Theme("b"))>>,
     <<Load(Theme("c")), Edit("app", 1, One(Full(Q("o", "y") :> N(4) @@ P("r") :> Ref(Theme("b"))))), Drop("app"), Invalidate(Missing), Load(Theme("a"))>>),
   \* equal priorities; a patch of itself; one fixture is invalidated
   Setup(Themes("array-replace"), <<App(1), User(1), Base>>,
     Files(At(One(Full(Plain)), One(Full(P("n") :> N(0))), One(Patch(Theme("c"), P("n") :> N(0)))),
           At(One(Patch(Theme("a"), Q("o", "x") :> N(2))), One(Patch(Theme("b"), P("n") :> N(6))), Gone),
           At(One(Patch(Theme("a"), P("n") :> N(3))), One(Full(P("n") :> N(5))), Gone)),
     <<Load(Theme("a")), Invalidate(Theme("a")), Load(Theme("a"))>>,
     <<Materialize(Theme("b")), Load(Theme("c")), Edit("base", 1, Gone), Invalidate(Missing)>>),
   \* references in a circle, a value no schema accepts
   Setup(Themes("replace"), <<Base, User(2)>>,
     Files(At(One(Full(P("r") :> Ref(Theme("b")))), One(Full(P("n") :> N(0))), One(Full(P("n") :> <<"n", Bad>>))), At(Gone, Gone, Gone),
           At(Gone, One(Patch(Theme("b"), P("r") :> Ref(Theme("a")) @@ P("n") :> N(2))), Gone)),
     <<Materialize(Theme("a")), List(1), Load(Theme("c"))>>, <<Materialize(Theme("b")), Edit("user", 2, Gone), Invalidate(Theme("b")), Materialize(Theme("a"))>>),
   \* validation, with broken files, a dangling reference and a source that is down
   Setup(<<T("json", FALSE, "replace", At("a", "b", Gone)), T("yaml", TRUE, "deep", At("f", "f", "f"))>>,
     <<Base, User(2), Source("down", "store", 3, 4, TRUE)>>,
     Files(At("json" :> Broken @@ "yaml" :> ("a" :> Full(P("n") :> N(1))),
              One(Full(P("r") :> Ref(Theme("a")) @@ P("s") :> Ref(<<2, "z">>))),
              "json" :> Broken @@ "yaml" :> Broken),
           At(Gone, Gone, Gone),
           At(Gone, Gone, "json" :> Broken @@ "yaml" :> ("p" :> Full(P("n") :> N(1)) @@ "q" :> Full(P("r") :> Ref(Theme("b")))))) @@ "down" :> At(Gone, Gone, Gone),
     <<Validate, Edit("user", 3, Gone), Validate>>,
     <<Edit("base", 1, One(Full(P("n") :> N(0)))), Validate>>),
   \* validation and seeding, with a file of several fixtures
   Setup(<<T("json", FALSE, "deep", At("a", "b", Gone)), T("json", TRUE, "deep", At(Gone, Gone, "f"))>>, <<Base, App(2)>>,
     Files(At(One(Full(P("r") :> Ref(<<2, "p">>))), One(Full(P("n") :> N(1))), "json" :> ("p" :> Full(P("n") :> N(1)) @@ "q" :> Full(P("r") :> Ref(Theme("b"))))),
           At(Gone, Gone, "json" :> ("p" :> Patch(<<2, "p">>, Q("o", "x") :> N(2)))), At(Gone, Gone, Gone)),
     <<Seed(1, TRUE)>>,
     <<Load(<<2, "p">>), Edit("base", 3, Gone), Invalidate(Missing), Seed(1, FALSE)>>) }
===============================================================================
