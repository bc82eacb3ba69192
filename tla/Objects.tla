------------------------------ MODULE Objects --------------------------------
(***************************************************************************)
(* The list of one object class (src/object.c) and the walks over it that  *)
(* take no lock: rt_device_find (src/device.c) and the list_thread command *)
(* (components/finsh/cmd.c).  Linking and unlinking are critical sections; *)
(* a walk may lose the CPU at every node.                                  *)
(***************************************************************************)
EXTENDS Integers, FiniteSets

CONSTANTS
  Object, ObjectName,  (* the objects of the class, and their names        *)
  name,                (* name[o]                                          *)
  Walker,              (* those that walk                                  *)
  Detachable,          (* objects that may leave the list                  *)
  head,                (* &information->object_list                        *)
  NoObject             (* no name: list_thread; no result                  *)

ASSUME ObjectsAssumption ==
  /\ name \in [Object -> ObjectName] /\ NoObject \notin ObjectName \cup Object
  /\ head \notin Object /\ Detachable \subseteq Object

VARIABLES
  next, prev,   (* rt_list_t of every node                                 *)
  linked,       (* the objects initialised and not detached                *)
  at,           (* thread -> the node its walk stands on                   *)
  seek,         (* thread -> the name it looks for, none when it lists     *)
  walking,      (* the threads in a walk                                   *)
  result,       (* thread -> what rt_device_find has returned              *)
  stayed, seen  (* thread -> the objects in the list all through its walk, *)
                (* and those the walk has looked at                        *)

listVars == <<next, prev, linked>>
walkVars == <<at, seek, walking, result, seen>>
objectVars == <<listVars, walkVars, stayed>>

Node == Object \cup {head}
AllOf(x) == [t \in Walker |-> x]

ObjectsInit ==
  /\ next = [n \in Node |-> n] /\ prev = [n \in Node |-> n] /\ linked = {}
  /\ at = AllOf(head) /\ seek = AllOf(NoObject) /\ walking = {}
  /\ result = AllOf(NoObject) /\ stayed = AllOf({}) /\ seen = AllOf({})

-----------------------------------------------------------------------------

\* rt_list_insert_after(&info->object_list, &object->list).
LinkObject(o) ==
  /\ next' = [next EXCEPT ![o] = next[head], ![head] = o]
  /\ prev' = [prev EXCEPT ![next[head]] = o, ![o] = head]

\* rt_object_init, of an object that is not in the list.
ObjectInit(o) ==
  /\ o \notin linked
  /\ LinkObject(o)
  /\ linked' = linked \cup {o}
  /\ UNCHANGED <<walkVars, stayed>>

\* rt_object_detach: the node is linked to itself.
ObjectDetach(o) ==
  /\ o \in linked \cap Detachable
  /\ next' = [next EXCEPT ![prev[o]] = next[o], ![o] = o]
  /\ prev' = [prev EXCEPT ![next[o]] = prev[o], ![o] = o]
  /\ linked' = linked \ {o}
  /\ stayed' = [t \in Walker |-> stayed[t] \ {o}]
  /\ UNCHANGED walkVars

\* The walk begins with the first node.
StartWalk(t, x) ==
  /\ t \notin walking /\ walking' = walking \cup {t}
  /\ at' = [at EXCEPT ![t] = next[head]]
  /\ seek' = [seek EXCEPT ![t] = x]
  /\ seen' = [seen EXCEPT ![t] = {}]
  /\ stayed' = [stayed EXCEPT ![t] = linked]
  /\ UNCHANGED <<listVars, result>>

Ends(t, r) ==
  /\ walking' = walking \ {t}
  /\ result' = [result EXCEPT ![t] = r]
  /\ UNCHANGED <<listVars, at, seek, seen, stayed>>

Matches(t) == seek[t] # NoObject /\ name[at[t]] = seek[t]

\* Wrong on purpose: an empty name matches.
FoundAny(t) ==
  /\ t \in walking /\ at[t] # head
  /\ Ends(t, at[t])

Found(t) ==
  /\ t \in walking /\ at[t] # head /\ Matches(t)
  /\ Ends(t, at[t])

\* One round of the loop.
Advance(t) ==
  /\ t \in walking /\ at[t] # head /\ ~Matches(t)
  /\ at' = [at EXCEPT ![t] = next[@]]
  /\ seen' = [seen EXCEPT ![t] = @ \cup {at[t]}]
  /\ UNCHANGED <<listVars, seek, walking, result, stayed>>

Through(t) ==
  /\ t \in walking /\ at[t] = head
  /\ Ends(t, NoObject)

Walk(t) == Found(t) \/ Advance(t) \/ Through(t)

ObjectsNext ==
  \/ \E o \in Object : ObjectInit(o) \/ ObjectDetach(o)
  \/ \E t \in Walker : \/ \E x \in ObjectName \cup {NoObject} : StartWalk(t, x)
                       \/ Walk(t)

ObjectsSpec == ObjectsInit /\ [][ObjectsNext]_objectVars

-----------------------------------------------------------------------------
(* Properties. *)

ObjectsTypes ==
  /\ next \in [Node -> Node] /\ prev \in [Node -> Node]
  /\ linked \subseteq Object
  /\ at \in [Walker -> Node] /\ seek \in [Walker -> ObjectName \cup {NoObject}]
  /\ walking \subseteq Walker /\ result \in [Walker -> Object \cup {NoObject}]
  /\ stayed \in [Walker -> SUBSET Object] /\ seen \in [Walker -> SUBSET Object]

\* A search that ends without a result has met every object that was in the
\* list all the time, and one with a result has the name asked for: new
\* objects come in front and take no walk off its way.
SearchComplete ==
  [][\A t \in walking : t \notin walking' =>
       /\ result'[t] = NoObject => /\ stayed[t] \subseteq seen[t]
                               /\ \A o \in stayed[t] : name[o] # seek[t]
       /\ result'[t] # NoObject => name[result'[t]] = seek[t]]_objectVars
=============================================================================
