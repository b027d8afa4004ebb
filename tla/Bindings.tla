------------------------------ MODULE Bindings ------------------------------
(***************************************************************************)
(* What an MVRU is given: capabilities bound to it                         *)
(* (internal/domain/capability) and its configuration per layer            *)
(* (internal/domain/layer).  Matching models how capabilities are ranked.  *)
(* RecordInvocation has no caller and layer_routing_rules no writer.       *)
(***************************************************************************)
EXTENDS Organization

CONSTANTS
  Names,     \* names of capabilities, with their version
  Layers     \* the three layers

VARIABLES
  capabilities,  \* rows [name]
  bindings,      \* rows [id, capability, mvru]
  layerConfigs   \* pairs <<mvru, layer>> that have a configuration

bound == <<capabilities, bindings, layerConfigs>>

BindingsInit == capabilities = <<>> /\ bindings = {} /\ layerConfigs = {}

-----------------------------------------------------------------------------
\* UNIQUE (name, version).
CreateCapability(name) ==
  /\ \A n \in DOMAIN capabilities : capabilities[n].name # name
  /\ Insert
  /\ capabilities' = Append(capabilities, [name |-> name])
  /\ Answered({Row("capability", Len(capabilities) + 1)})

createCapability ==
  /\ \E name \in Names : CreateCapability(name)
  /\ UNCHANGED <<identity, organization, bindings, layerConfigs>>

ListCapabilities == RowsOf("capability", capabilities)

listCapabilities ==
  /\ Answered(ListCapabilities)
  /\ UNCHANGED <<rows, identity, organization, bound>>

\* Mutant: a binding the two have already is replaced by the new one.
BindCapabilityAgain(c, m) ==
  /\ Insert
  /\ bindings' = {b \in bindings : b.capability # c \/ b.mvru # m}
                   \cup {[id |-> rows + 1, capability |-> c, mvru |-> m]}
  /\ Answered({Row("binding", rows + 1)})

\* UNIQUE (capability_id, mvru_id); a binding's id is never given again.
BindCapability(c, m) ==
  /\ \A b \in bindings : b.capability # c \/ b.mvru # m
  /\ Insert
  /\ bindings' = bindings \cup {[id |-> rows + 1, capability |-> c, mvru |-> m]}
  /\ Answered({Row("binding", rows + 1)})

bindCapability ==
  /\ \E c \in {n \in DOMAIN capabilities : Told("capability", n)}, m \in ToldMVRUs :
       BindCapability(c, m)
  /\ UNCHANGED <<identity, organization, capabilities, layerConfigs>>

\* The rows DELETE ... WHERE id = $1 takes: none if the id is no longer bound.
UnbindCapability(id) == {b \in bindings : b.id = id}

unbindCapability ==
  /\ \E id \in {n \in 1 .. rows : Told("binding", n)} :
       bindings' = bindings \ UnbindCapability(id)
  /\ UNCHANGED <<shared, identity, organization, capabilities, layerConfigs>>

ListBoundCapabilities(m) == {Row("binding", b.id) : b \in {x \in bindings : x.mvru = m}}

listBindings ==
  /\ \E m \in ToldMVRUs : Answered(ListBoundCapabilities(m))
  /\ UNCHANGED <<rows, identity, organization, bound>>

\* The foreign key, and ON CONFLICT (mvru_id, layer) DO UPDATE.
SetLayerConfig(m, layer) == Insert /\ layerConfigs' = layerConfigs \cup {<<m, layer>>}

setLayerConfig ==
  /\ \E m \in ToldMVRUs, layer \in Layers : SetLayerConfig(m, layer)
  /\ UNCHANGED <<told, identity, organization, capabilities, bindings>>

BindingsNext ==
  \/ createCapability \/ listCapabilities
  \/ bindCapability \/ unbindCapability \/ listBindings \/ setLayerConfig

BindingsTypeOK ==
  /\ capabilities \in Seq([name : Names])
  /\ bindings \subseteq [id : Nat, capability : DOMAIN capabilities, mvru : DOMAIN muvrs]
  /\ layerConfigs \subseteq (DOMAIN muvrs) \X Layers
=============================================================================
