----------------------------- MODULE D3D11Context -----------------------------
(***************************************************************************)
(* The Direct3D 11 device context, as the plugin's passes use it: slots    *)
(* that views, shaders and states are bound to, and the rule that no       *)
(* resource is read and written at once.  A binding is the set of the      *)
(* subresources it gives access to, empty when nothing is bound; a shader, *)
(* a state or a buffer is a set of one name.  The content of a resource is *)
(* known by a stamp: the frame, or the place of the sun, it stands for.    *)
(* A device is a record with at least                                      *)
(*   bound    what each slot holds                                         *)
(*   content  the stamp of each resource                                   *)
(*   drawn    the draws and dispatches the plugin made in this step        *)
(*   broken   the creation that fails for want of memory, if any           *)
(***************************************************************************)
EXTENDS Integers, Sequences, FiniteSets, Functions

CsInputs == {"cs_t0", "cs_t1", "cs_t2", "cs_t3"}
PsInputs == {"ps_t0", "ps_t1", "ps_t2", "ps_t23"}
Inputs   == CsInputs \cup PsInputs
Outputs  == {"om_rtv", "om_dsv", "cs_u0"}
States   == {"cs", "cs_b0", "cs_s0", "vs", "vs_b0", "ps", "ps_b0", "ps_s0", "ps_s1",
             "ia_layout", "ia_topology", "ia_vb0", "ia_ib", "rs", "viewport",
             "blend", "depth_state"}
Views    == Inputs \cup Outputs
Slots    == Views \cup States

Null == {}
Meets(a, b) == a \cap b # {}

\* What a slot holds after a call that binds the slots of f, all of one kind: an
\* input that is bound for writing is left empty, and an output takes its
\* subresources from every other slot.
Set(g, f) ==
  LET slots == DOMAIN f
      taken == UNION {f[s] : s \in slots \cap Outputs}
      busy  == UNION {g.bound[o] : o \in Outputs}
      empty == {s \in slots \cap Inputs : Meets(f[s], busy)}
                 \cup IF taken = {} THEN {} ELSE {s \in Views \ slots : Meets(g.bound[s], taken)}
  IN  [g EXCEPT !.bound = [s \in Slots |-> IF s \in empty THEN Null ELSE IF s \in slots THEN f[s] ELSE @[s]]]

\* The slots of f bound again, one group of them after the other.
SetInTurn(g, f, groups) ==
  LET after[k \in 0 .. Len(groups)] ==
        IF k = 0 THEN g ELSE Set(after[k - 1], Restrict(f, groups[k] \cap DOMAIN f))
  IN  after[Len(groups)]

Get(g, slots) == Restrict(g.bound, slots)

\* No view for every slot of a set.
Nothing(slots) == [slot \in slots |-> Null]

Write(g, resource, stamp) == [g EXCEPT !.content[resource] = stamp]

\* The stamp of what an input gives access to, zero when there is nothing.
StampAt(g, slot) ==
  IF g.bound[slot] = Null THEN 0 ELSE g.content[CHOOSE r \in g.bound[slot] : TRUE]

\* A draw or dispatch of the bound shader: what is bound to be written gets the
\* stamp, and what the shader can read is noted with the stamps it had.
Issue(g, shader, inputs, outputs, stamp) ==
  LET written == UNION {g.bound[o] : o \in outputs}
      stamps  == [i \in inputs |-> {g.content[r] : r \in g.bound[i]}]
  IN  [g EXCEPT !.content = [r \in DOMAIN @ |-> IF r \in written THEN stamp ELSE g.content[r]],
                !.drawn = @ \cup {[shader |-> shader, stamps |-> stamps]}]

Creates(g, name) == name # g.broken
=============================================================================
