-------------------------------- MODULE Stack -------------------------------
(***************************************************************************)
(* The operands stack of stack.c: a list of nodes on the heap, each with a *)
(* block of its own for the int.  A push takes two blocks, of which the    *)
(* second may be refused after the first was given; a pop gives both back. *)
(* The tests of stack_push for null pointers never fire: its callers pass  *)
(* the address of a local int and the server's stack.                      *)
(* The heap hands out any address that is free, one just freed included.   *)
(***************************************************************************)
EXTENDS Instructions, FiniteSets

CONSTANTS
  Values,      (* the ints pushed                           *)
  NodeBlocks,  (* addresses malloc may give a stack_node    *)
  DataBlocks,  (* addresses malloc may give an element      *)
  NULL

ASSUME StackAssumption ==
  /\ Values \subseteq Int_t
  /\ NULL \notin NodeBlocks \cup DataBlocks \cup Int_t

VARIABLES
  pc,           (* "in_use", "destroying" (in stack_destroy) or "destroyed"   *)
  _top,         (* the first node                                             *)
  _stack_size,
  node,         (* the allocated nodes: address to [_data, _lower]            *)
  data,         (* the allocated elements: address to int                     *)
  result,       (* what the last stack_push or stack_pop returned             *)
  leaked        (* history: nodes stack_push has lost                         *)

heap == <<node, data>>
vars == <<pc, _top, _stack_size, heap, result, leaked>>

OPERATION_SUCCESS == 0
OPERATION_FAILURE_NO_MEMORY == 2

(* stack_create *)
Init ==
  /\ pc = "in_use"
  /\ _top = NULL /\ _stack_size = 0
  /\ node = << >> /\ data = << >>
  /\ result = OPERATION_SUCCESS
  /\ leaked = {}

With(f, address, content) ==
  [a \in DOMAIN f \cup {address} |-> IF a = address THEN content ELSE f[a]]
Without(f, address) == [a \in DOMAIN f \ {address} |-> f[a]]

(* The addresses a malloc may return; it may fail whenever memory does. *)
Malloc(blocks, used) == (blocks \ used) \cup
  (IF MemoryFails \/ blocks \subseteq used THEN {NULL} ELSE {})

(* Mutant: the node is made the top before the old top is put under it. *)
LinkSwapped(a, d) ==
  /\ node' = With(node, a, [_data |-> d, _lower |-> a])
  /\ _top' = a

Link(a, d) ==
  /\ node' = With(node, a, [_data |-> d, _lower |-> _top])
  /\ _top' = a

stack_push(elem) ==
  /\ pc = "in_use"
  /\ \E a \in Malloc(NodeBlocks, DOMAIN node) \ {NULL}, d \in Malloc(DataBlocks, DOMAIN data) \ {NULL} :
       /\ Link(a, d)
       /\ data' = With(data, d, elem)
  /\ _stack_size' = _stack_size + 1
  /\ result' = OPERATION_SUCCESS
  /\ UNCHANGED <<pc, leaked>>

(* The first malloc fails: nothing has happened. *)
stack_push_no_node ==
  /\ pc = "in_use"
  /\ NULL \in Malloc(NodeBlocks, DOMAIN node)
  /\ result' = OPERATION_FAILURE_NO_MEMORY
  /\ UNCHANGED <<pc, _top, _stack_size, heap, leaked>>

(* The second malloc fails: the function returns without free(node). *)
stack_push_no_data ==
  /\ pc = "in_use"
  /\ NULL \in Malloc(DataBlocks, DOMAIN data)
  /\ \E a \in Malloc(NodeBlocks, DOMAIN node) \ {NULL} :
       /\ node' = With(node, a, [_data |-> NULL, _lower |-> NULL])
       /\ leaked' = leaked \cup {a}
  /\ result' = OPERATION_FAILURE_NO_MEMORY
  /\ UNCHANGED <<pc, _top, _stack_size, data>>

(* Mutant: the element's block is not freed. *)
UnlinkKeepingData ==
  /\ _top' = node[_top]._lower
  /\ node' = Without(node, _top)
  /\ _stack_size' = _stack_size - 1
  /\ UNCHANGED <<data, leaked>>

(* The end of stack_pop, for a stack that has a top. *)
Unlink ==
  /\ _top' = node[_top]._lower
  /\ data' = Without(data, node[_top]._data)
  /\ node' = Without(node, _top)
  /\ _stack_size' = _stack_size - 1
  /\ UNCHANGED leaked

stack_pop ==
  /\ pc = "in_use"
  /\ _top # NULL
  /\ result' = data[node[_top]._data]
  /\ Unlink
  /\ UNCHANGED pc

(* The code for "no_stack" is returned as if it were an element. *)
stack_pop_empty ==
  /\ pc = "in_use"
  /\ _top = NULL
  /\ result' = OPERATION_FAILURE_NULL_POINTER
  /\ UNCHANGED <<pc, _top, _stack_size, heap, leaked>>

stack_destroy ==
  /\ pc = "in_use"
  /\ pc' = "destroying"
  /\ UNCHANGED <<_top, _stack_size, heap, result, leaked>>

stack_destroy_turn ==
  /\ pc = "destroying"
  /\ _top # NULL
  /\ Unlink
  /\ UNCHANGED <<pc, result>>

stack_destroy_end ==
  /\ pc = "destroying"
  /\ _top = NULL
  /\ pc' = "destroyed"
  /\ _stack_size' = 0
  /\ UNCHANGED <<_top, heap, result, leaked>>

Next ==
  \/ \E elem \in Values : stack_push(elem)
  \/ stack_push_no_node \/ stack_push_no_data
  \/ stack_pop \/ stack_pop_empty
  \/ stack_destroy \/ stack_destroy_turn \/ stack_destroy_end

Spec == Init /\ [][Next]_vars

-----------------------------------------------------------------------------
(* The n-th node from the top, following _lower. *)
Below(n) ==
  LET f[k \in 0 .. n] ==
        IF k = 0 THEN _top
        ELSE IF f[k - 1] \in DOMAIN node THEN node[f[k - 1]]._lower ELSE NULL
  IN  f[n]

Linked == {Below(n) : n \in 0 .. _stack_size - 1}

(* The heap holds the stack and nothing else: _stack_size different nodes hang *)
(* from _top, the last has nothing under it, each owns one of the elements'    *)
(* blocks, and what else is allocated are nodes that stack_push lost between   *)
(* its two mallocs.  So nothing freed is reachable, whatever address malloc    *)
(* reuses, and stack_destroy leaves only what was lost, which stack.h:45 ("the *)
(* allocated memory is released") does not say.                                *)
HeapIsTheStack ==
  /\ Below(_stack_size) = NULL
  /\ Cardinality(Linked) = _stack_size
  /\ DOMAIN node = Linked \cup leaked /\ Linked \cap leaked = {}
  /\ {node[a]._data : a \in Linked} = DOMAIN data
  /\ Cardinality(DOMAIN data) = _stack_size
  /\ pc = "destroyed" => Linked = {}

(* The ints from the bottom to the top. *)
Contents ==
  [k \in 1 .. _stack_size |->
     LET a == Below(_stack_size - k) IN
     IF a \in DOMAIN node /\ node[a]._data \in DOMAIN data THEN data[node[a]._data] ELSE NULL]

(* The callers may take the list for the sequence on which the instructions    *)
(* are defined: last in first out, a push that fails changes nothing they can  *)
(* see, and an empty stack gives its error code for an element.                *)
Sequence == INSTANCE Lifo WITH operands <- Contents
ImplementsLifo == Sequence!Spec
=============================================================================
