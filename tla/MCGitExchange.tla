--------------------------- MODULE MCGitExchange ---------------------------
(***************************************************************************)
(* A repository with two refs, pushes of at most two commands with up to  *)
(* two shallow lines and an option, policies of up to two rules, and a     *)
(* secret of three bytes that overlaps itself.                             *)
(***************************************************************************)
EXTENDS GitExchange, TLC

repo == <<"r", "1">>
main == <<"heads", "main">>
dev == <<"heads", "dev">>

Command(ref, kind, listed, caps) ==
  [type |-> "command", format |-> FormatOf(caps), update |-> [ref |-> ref, kind |-> kind],
   listed |-> listed, capabilities |-> caps]

items ==
  {[type |-> "flush"], [type |-> "broken"], [type |-> "PACK"], [type |-> "option"],
   [type |-> "shallow", format |-> "sha1"], [type |-> "shallow", format |-> "sha256"],
   Command(main, "update", TRUE, {}), Command(main, "update", TRUE, {"push-options"}),
   Command(main, "none", TRUE, {}), Command(main, "delete", TRUE, {"atomic"}),
   Command(main, "update", TRUE, {"sha256"}),
   Command(dev, "delete", FALSE, {}), Command(main, "update", FALSE, {}),
   Command(dev, "create", FALSE, {}), Command(dev, "delete", TRUE, {"push-options"})}

AllowAll == [effect |-> "allow", repositories |-> {}, services |-> {}, operations |-> {}, versions |-> {},
        formats |-> {}, refs |-> {}, kinds |-> {}, signed |-> {}, atomic |-> {}, hasPushOptions |-> {}]
DenyAll == [AllowAll EXCEPT !.effect = "deny"]
Exactly(name) == [exact |-> name, prefix |-> <<>>]
Under(name) == [exact |-> <<>>, prefix |-> name]

Allows == {AllowAll, [AllowAll EXCEPT !.refs = {Exactly(main)}],
           [AllowAll EXCEPT !.repositories = {Under(<<"r">>)}, !.kinds = {"create", "update"}]}

Denies == {DenyAll, [DenyAll EXCEPT !.repositories = {Exactly(<<"r">>)}], [DenyAll EXCEPT !.kinds = {"delete"}],
           [DenyAll EXCEPT !.hasPushOptions = {TRUE}], [DenyAll EXCEPT !.refs = {Exactly(dev)}],
           [DenyAll EXCEPT !.refs = {Under(<<"heads">>)}, !.formats = {"sha256"}]}

Rule(shape, n) == [id |-> n] @@ shape

policies == {<<Rule(a, 1)>> : a \in Allows} \cup {<<Rule(d, 1), Rule(a, 2)>> : a \in Allows, d \in Denies}

secret == <<1, 1, 2>>
=============================================================================
