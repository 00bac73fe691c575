------------------------------ MODULE ShaderPatch ------------------------------
(***************************************************************************)
(* How the proxy rewrites a pixel shader so that it also fills the         *)
(* G-buffer (d3d11_proxy/MaterialPipeline.cpp).  A program is a signature  *)
(* (a table of outputs, by index and register, and behind it the names     *)
(* that the table refers to by their offset), its declared textures and    *)
(* temporaries and its code; an instruction has an operation, where it     *)
(* writes and what it reads.  A value is the set of what went into it.     *)
(* Headers and tables of the container are taken to be well formed.        *)
(***************************************************************************)
EXTENDS Integers, Sequences, FiniteSets, SequencesExt

Nowhere == <<"none", 0>>
Temp(n) == <<"temp", n>>
Output(n) == <<"output", n>>
Resource(n) == <<"resource", n>>

\* The programs that the game has.
Operands == STRING \X Int
Instructions == [op : STRING, writes : {"none", "temp", "output"} \X Int, reads : SUBSET Operands, extended : BOOLEAN]
IsProgram(program) ==
  /\ DOMAIN program = {"elements", "names", "textures", "temps", "code"}
  /\ program.code \in Seq(Instructions) /\ program.temps \in Nat

\* The operations that sample a texture, and those of a program's end.
SampleOps == {"sample", "sample_l", "sample_d", "sample_b", "sample_c"}
IsSampleOp(insn) == insn.op \in SampleOps

\* Operations below 0x42, the first of which the code takes for the first
\* instruction; samples lie above, among the declarations.
IsPlain(insn) == insn.op \in {"add", "mul", "mov", "ret", "retc"}

InsnUsesResource(insn, slot) == Resource(slot) \in insn.reads

\* Only a plain operand is recognised: an extended token comes between the
\* operation and its operands in shaders of a later model.
InsnDestTempReg(insn) ==
  IF ~insn.extended /\ insn.writes[1] = "temp" THEN insn.writes[2] ELSE -1

Positions(program, Test(_)) == {k \in DOMAIN program.code : Test(program.code[k])}

IsLightingShaderCandidate(program) ==
  \A slot \in {0, 1} :
    Positions(program, LAMBDA insn : IsSampleOp(insn) /\ InsnUsesResource(insn, slot)) # {}

\* The declared textures, slot to dimension, in the order of their weight.
ClassifyFromDXBC(program) ==
  LET slots == {s \in DOMAIN program.textures : s < 16}
      Of(dim) == {s \in slots : program.textures[s] = dim}
  IN  CASE 12 \in slots                -> "Skin"
        [] 12 \notin slots /\ 7 \in slots -> "Hair"
        [] {7, 12} \cap slots = {} /\ 3 \in Of("cube") -> "Eye"
        [] {7, 12} \cap slots = {} /\ 3 \notin Of("cube") /\ Of("cube") # {} -> "EnvMap"
        [] {7, 12} \cap slots = {} /\ Of("cube") = {} /\ Cardinality(Of("2d")) >= 6 -> "Terrain"
        [] {7, 12} \cap slots = {} /\ Of("cube") = {} /\ Cardinality(Of("2d")) < 6 /\ 3 \in slots -> "Parallax"
        [] OTHER -> "Default"

\* Metallic, roughness, scattering (in hundredths) and the type's number.
GetDefaults(type) ==
  CASE type = "Skin"     -> <<4, 40, 100, 1>>
    [] type = "Hair"     -> <<4, 30, 30, 2>>
    [] type = "Eye"      -> <<4, 25, 0, 3>>
    [] type = "EnvMap"   -> <<90, 15, 0, 4>>
    [] type = "Terrain"  -> <<4, 70, 0, 5>>
    [] type = "Parallax" -> <<4, 55, 0, 6>>
    [] OTHER             -> <<4, 50, 0, 0>>

Lowest(S)  == CHOOSE n \in S : \A m \in S : n <= m
Highest(S) == CHOOSE n \in S : \A m \in S : n >= m

\* The register the first sample of the slot writes, -1 if it is none or beyond
\* the declared ones; a sample that writes elsewhere is passed over.
SampleDest(program, slot) ==
  LET found == Positions(program, LAMBDA insn :
                 /\ IsSampleOp(insn) /\ InsnUsesResource(insn, slot)
                 /\ InsnDestTempReg(insn) >= 0)
      dest  == InsnDestTempReg(program.code[Lowest(found)])
  IN  IF found = {} THEN -1 ELSE IF dest >= program.temps THEN -1 ELSE dest

\* One target, the first, and nothing patched yet.
HasTarget0(program) == \E e \in ToSet(program.elements) : e.index = 0 /\ e.reg = 0
Patchable(program) ==
  /\ program.elements # <<>> /\ Len(program.elements) <= 8
  /\ HasTarget0(program) /\ \A e \in ToSet(program.elements) : e.index = 0
  /\ SampleDest(program, 0) >= 0
  /\ Positions(program, IsPlain) # {}
  /\ Positions(program, LAMBDA insn : insn.op = "ret") # {}

\* The table of a signature: a header of 8 bytes and 24 for each element.
TableEnd(elements) == 8 + 24 * elements

\* The new elements take the name and the mask of the first target.
PatchedElements(program, outputs) ==
  LET target0 == Highest({k \in DOMAIN program.elements :
                            program.elements[k].index = 0 /\ program.elements[k].reg = 0})
  IN  program.elements \o
        [k \in 1 .. outputs |-> [name |-> program.elements[target0].name, index |-> k, reg |-> k]]

\* They are written behind the table, over the names that were there, and no
\* offset is moved: what an offset below the new end now finds is no name.
PatchedNames(program, outputs) ==
  [at \in DOMAIN program.names |->
     IF at < TableEnd(Len(program.elements) + outputs) THEN "overwritten" ELSE program.names[at]]

NameOf(program, element) == program.names[element.name]

MovFromTemp(out, reg) == [op |-> "mov", writes |-> Output(out), reads |-> {Temp(reg)}, extended |-> FALSE]
MovFromImm(out, type) ==
  [op |-> "mov", writes |-> Output(out), reads |-> {<<"material", GetDefaults(type)>>}, extended |-> FALSE]
DclOutput(out) == [op |-> "dcl_output", writes |-> Output(out), reads |-> {}, extended |-> FALSE]

\* Wrong: the moves are put before the first return.
FirstReturn(program) == Lowest(Positions(program, LAMBDA insn : insn.op \in {"ret", "retc"}))

\* The moves are put before the last unconditional return.
LastReturn(program) == Highest(Positions(program, LAMBDA insn : insn.op = "ret"))

Moves(program, type) ==
  IF SampleDest(program, 1) >= 0
  THEN << MovFromTemp(1, SampleDest(program, 0)), MovFromTemp(2, SampleDest(program, 1)), MovFromImm(3, type) >>
  ELSE << MovFromTemp(1, SampleDest(program, 0)), MovFromImm(2, type) >>

PatchedCode(program, type) ==
  LET moves == Moves(program, type)
      first == Lowest(Positions(program, IsPlain))
      last  == LastReturn(program)
  IN  SubSeq(program.code, 1, first - 1)
      \o [k \in 1 .. Len(moves) |-> DclOutput(k)]
      \o SubSeq(program.code, first, last - 1)
      \o moves
      \o SubSeq(program.code, last, Len(program.code))

PatchForGBufferOutput(program, type) ==
  [program EXCEPT !.elements = PatchedElements(program, Len(Moves(program, type))),
                  !.names = PatchedNames(program, Len(Moves(program, type))),
                  !.code = PatchedCode(program, type)]

-----------------------------------------------------------------------------
(* The device. *)

\* A declaration after an instruction is refused; anything else may be, and so
\* may a signature whose names are overwritten.  A program that is taken writes
\* its targets by the number of its output registers, whatever their names.
MayBeCreated(program) ==
  \A k \in DOMAIN program.code :
    program.code[k].op = "dcl_output" => \A j \in 1 .. k : program.code[j].op = "dcl_output"

\* What has been written, and whether the program has ended.
Start == [values |-> [at \in {} |-> {}], ended |-> FALSE]
ValueOf(values, at) == IF at \in DOMAIN values THEN values[at] ELSE {at}
Ends(insn, taken) == insn.op = "ret" \/ (insn.op = "retc" /\ taken)
Result(values, insn) ==
  LET read == UNION {ValueOf(values, at) : at \in insn.reads}
  IN  IF insn.op \in {"add", "mul"} THEN read \cup {<<"by", insn.op>>} ELSE read
Execute(state, insn, taken) ==
  IF state.ended \/ Ends(insn, taken) THEN [state EXCEPT !.ended = TRUE]
  ELSE IF insn.writes = Nowhere \/ insn.op = "dcl_output" THEN state
  ELSE [state EXCEPT !.values = [at \in DOMAIN @ \cup {insn.writes} |->
                                   IF at = insn.writes THEN Result(state.values, insn) ELSE @[at]]]

\* What the program leaves in its registers and outputs, instruction by
\* instruction; "taken" tells whether a conditional return is.
History(code, taken) ==
  LET after[k \in 0 .. Len(code)] == IF k = 0 THEN Start ELSE Execute(after[k - 1], code[k], taken) IN after
Run(program, taken) == History(program.code, taken)[Len(program.code)].values

\* What is written to a target; a target the program does not reach keeps what
\* the device leaves there.
Written(program, taken, out) ==
  LET values == Run(program, taken) IN IF Output(out) \in DOMAIN values THEN values[Output(out)] ELSE {}
=============================================================================
