--------------------------- MODULE MCSplitBundle ---------------------------
(***************************************************************************)
(* Instances of SplitBundle for TLC: bundles of four lazy modules, or of two     *)
(* lazy and two CommonJs modules, with two variables and a function.            *)
(***************************************************************************)
EXTENDS SplitBundle

CONSTANTS ma, mb, mc, md, vx, vy, fx

OneFunction == [g \in {fx} |-> vx]

Lazy == [m \in Modules |-> "lazy"]
Mixed == [m \in Modules |-> IF m \in {mb, mc} THEN "cjs" ELSE "lazy"]

Call1(m) == << <<"call", m>> >>
Set1(n) == << <<"set", n>> >>
Use1(n) == << <<"use", n>> >>
Bump1(n) == << <<"bump", n>> >>

Wrapper(m) == [names |-> {}, wraps |-> <<m>>, call |-> None]
Declares(s) == [names |-> s, wraps |-> << >>, call |-> None]

-----------------------------------------------------------------------------
(* Direct bundles *)

DirectStatements ==
  <<Wrapper(ma), Declares({vx, fx}), Wrapper(mb), Wrapper(mc), Wrapper(md), Declares({vy})>>

Bodies(alphabet, length) == UNION {[1 .. n -> alphabet] : n \in 0 .. length}

Alphabet(m) == {Call1(n) : n \in Modules \ {m}} \cup {Use1(n) : n \in {vx, vy}}

DirectPrograms ==
  {p \in
    {[kind |-> kind, statements |-> DirectStatements, renamed |-> TRUE, entry |-> entry,
      body |-> (ma :> A @@ mb :> B @@ mc :> C @@ md :> D)] :
       kind \in {Mixed, Lazy}, entry \in {mb, md},
       A \in {<<Set1(vx)>>, <<Bump1(fx), Use1(vx)>>, <<Set1(vx), Call1(mc), Bump1(fx)>>},
       B \in Bodies(Alphabet(mb), 2),
       C \in {<< >>, <<Call1(md), Use1(vy)>>, <<Call1(ma), Call1(md), Use1(vx)>>, <<Call1(mb)>>},
       D \in {<<Set1(vy)>>, <<Call1(ma), Use1(vx), Set1(vy), Call1(mb)>>, <<Set1(vy), Call1(mc)>>}} :
   Direct(p)}

-----------------------------------------------------------------------------
(* Bundles of all sorts: declarations in front of their wrapper, in its statement, behind
   another one; calls at the top; operands of a comma; cycles; re-exports; functions. *)

TopCall(m) == [names |-> {}, wraps |-> << >>, call |-> m]

AnyStatements ==
  {DirectStatements,
   <<Declares({vx, fx}), Wrapper(ma), Wrapper(mb), Wrapper(mc), Declares({vy}), Wrapper(md), TopCall(mb)>>,
   <<[names |-> {vx, fx}, wraps |-> <<ma, mb>>, call |-> None], Wrapper(mc), TopCall(mc),
     Wrapper(md), Declares({vy}), TopCall(md)>>,
   <<Wrapper(ma), Declares({vx}), Wrapper(mb), Declares({fx}), Wrapper(mc), Wrapper(md), Declares({vy})>>}

Comma(s) == [k \in DOMAIN s |-> s[k][1]]

AnyPrograms ==
  {[kind |-> kind, statements |-> statements, renamed |-> renamed, entry |-> entry,
    body |-> (ma :> A @@ mb :> B @@ mc :> C @@ md :> D)] :
     kind \in {Mixed, Lazy}, statements \in AnyStatements, renamed \in BOOLEAN,
     entry \in {mb, md},
     A \in {<<Set1(vx)>>, <<Set1(vx), Bump1(fx), Call1(mb)>>, <<Comma(<<Call1(mb), Call1(md)>>)>>},
     B \in {<<Use1(vx), Call1(ma), Use1(vx)>>, <<Call1(ma), Bump1(fx), Use1(vx)>>,
            <<Comma(<<Call1(ma), Use1(vx)>>), Use1(vx)>>,
            <<Comma(<<Call1(ma), Call1(md)>>)>>,
            <<Comma(<<Call1(mc), Call1(ma), Use1(vx)>>)>>,
            <<Comma(<<Call1(md), Call1(ma), Use1(vx), Use1(vy)>>)>>},
     C \in {<< >>, <<Call1(ma), Call1(mb), Use1(vx)>>, <<Call1(md), Use1(vy)>>},
     D \in {<<Set1(vy)>>, <<Call1(ma), Set1(vy), Call1(mb), Use1(vx)>>,
            <<Call1(mc), Set1(vy), Use1(vx), Use1(vy)>>}}

AllPrograms == DirectPrograms \cup AnyPrograms
=============================================================================
