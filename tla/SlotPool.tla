------------------------------ MODULE SlotPool ------------------------------
(***************************************************************************)
(* What a pool of objects promises: an object handed out is one that nobody *)
(* holds, and is zero; a request fails only if all objects are held; what  *)
(* a client keeps in its objects is changed by the client alone.           *)
(***************************************************************************)
EXTENDS Naturals

CONSTANTS
  Slot,   \* addresses of objects, 0 is not one of them
  Value   \* what clients keep in them

VARIABLES
  slots,    \* the objects of the pool
  content,  \* content[s] for the objects that are held
  answer    \* to the last request: an object or 0

spVars == <<slots, content, answer>>

Nothing == [s \in {} |-> 0]

SPInit == slots = {} /\ content = Nothing /\ answer = 0

Create ==
  /\ slots = {}
  /\ slots' \in SUBSET Slot
  /\ UNCHANGED <<content, answer>>

Destroy == slots' = {} /\ content' = Nothing /\ UNCHANGED answer

Request ==
  /\ UNCHANGED slots
  /\ \/ DOMAIN content = slots /\ answer' = 0 /\ UNCHANGED content
     \/ \E s \in slots \ DOMAIN content :
          /\ answer' = s
          /\ content' = [t \in DOMAIN content \cup {s} |-> IF t = s THEN 0 ELSE content[t]]

Return ==
  /\ \E s \in DOMAIN content : content' = [t \in DOMAIN content \ {s} |-> content[t]]
  /\ UNCHANGED <<slots, answer>>

Update ==
  /\ \E s \in DOMAIN content, v \in Value : content' = [content EXCEPT ![s] = v]
  /\ UNCHANGED <<slots, answer>>

SPNext == Create \/ Destroy \/ Request \/ Return \/ Update

SPSpec == SPInit /\ [][SPNext]_spVars
=============================================================================
