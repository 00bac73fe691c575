---------------------------- MODULE MCProxyContext ----------------------------
(***************************************************************************)
(* Two parts of the wrapped context that share no state: its filter of     *)
(* state calls, and the shaders and targets of the G-buffer.  Each is      *)
(* explored while the other rests.                                         *)
(***************************************************************************)
EXTENDS ProxyContext, GBuffer

VARIABLE part

BothInit ==
  /\ part \in {"filter", "pixels"} /\ Init /\ GBufferInit
  /\ part = "filter" => size = (CHOOSE s \in Sizes : TRUE) /\ failing = {}
BothNext ==
  \/ part = "filter" /\ Next /\ UNCHANGED <<part, gbufferVars>>
  \/ part = "pixels" /\ GBufferNext /\ UNCHANGED <<part, vars>>
BothSpec == BothInit /\ [][BothNext]_<<vars, part, gbufferVars>>

-----------------------------------------------------------------------------
Insn(op, writes, reads) == [op |-> op, writes |-> writes, reads |-> reads, extended |-> FALSE]
\* One target, whose name is right behind the table.
Target0 == [name |-> TableEnd(1), index |-> 0, reg |-> 0]
Program(textures, temps, code) ==
  [elements |-> <<Target0>>, names |-> [at \in {Target0.name} |-> "SV_Target"],
   textures |-> textures, temps |-> temps, code |-> code]
Two == [s \in 0 .. 1 |-> "2d"]
Ret == Insn("ret", Nowhere, {})

\* A surface with a return half way, one of skin that samples first and later,
\* one that reads a single texture, one whose samples have extended tokens.
Early == Program(Two, 2, << Insn("mov", Output(0), {<<"color", 0>>}), Insn("sample", Temp(0), {Resource(0)}),
                            Insn("retc", Nowhere, {Temp(0)}), Insn("sample_l", Temp(1), {Resource(1)}),
                            Insn("mul", Output(0), {Temp(0), Temp(1)}), Ret >>)
Skin  == Program([s \in {0, 1, 12} |-> "2d"], 3,
                 << Insn("mov", Temp(2), {<<"color", 0>>}), Insn("sample", Temp(1), {Resource(0)}),
                    Insn("sample_b", Temp(0), {Resource(1)}), Insn("add", Output(0), {Temp(0), Temp(1)}), Ret >>)
First == Program(Two, 2, << Insn("sample", Temp(0), {Resource(0)}), Insn("sample", Temp(1), {Resource(1)}),
                            Insn("mov", Output(0), {Temp(0)}), Ret >>)
Plain == Program([s \in {0} |-> "2d"], 1, << Insn("sample", Temp(0), {Resource(0)}),
                                             Insn("mov", Output(0), {Temp(0)}), Ret >>)
Extended(insn) == [insn EXCEPT !.extended = IsSampleOp(insn)]
Later == [Skin EXCEPT !.code = [k \in DOMAIN @ |-> Extended(@[k])]]
Vertex == Program([s \in {} |-> "2d"], 1, << Insn("mov", Output(0), {<<"position", 0>>}), Ret >>)
MCPrograms == [early |-> Early, skin |-> Skin, first |-> First, plain |-> Plain,
               later |-> Later, vertex |-> Vertex]

\* What the theorem on the targets asks of the programs.
ASSUME StraightPrograms == \A n \in PixelNames : Straight(Programs[n])
MCFailures == {{}, {"albedo"}}
=============================================================================
