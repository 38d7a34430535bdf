----------------------------- MODULE SupportLibrary -----------------------------
(***************************************************************************)
(* Four parts of proj_pass/tools/utils that a profiled program calls: the  *)
(* malloc family and the other library function wrappers, the circular     *)
(* buffer, and the map of the bytes not yet in memory.  They share no      *)
(* state: a step of one changes nothing another reads, so that the         *)
(* properties of each, which speak of its variables alone, hold together   *)
(* if they hold apart.  A behaviour here is one of one part, chosen when   *)
(* it starts.                                                              *)
(***************************************************************************)
EXTENDS LibraryHeap, LibraryCalls, CircularBuffer, MemoryMap

VARIABLE part

libraryVars == <<part, heapVars, callVars, bufferVars, mapVars>>

Init == /\ part \in {"heap", "calls", "buffers", "memory"}
        /\ HeapInit /\ CallsInit /\ BuffersInit /\ MapInit
        /\ part # "calls" => watch = RandToken /\ nul = {}
        /\ part # "buffers" => array_size = [b \in Both |-> DefaultCapacity]

Next == /\ \/ part = "heap" /\ HeapNext /\ UNCHANGED <<callVars, bufferVars, mapVars>>
           \/ part = "calls" /\ CallsNext /\ UNCHANGED <<heapVars, bufferVars, mapVars>>
           \/ part = "buffers" /\ BuffersNext /\ UNCHANGED <<heapVars, callVars, mapVars>>
           \/ part = "memory" /\ MapNext /\ UNCHANGED <<heapVars, callVars, bufferVars>>
        /\ UNCHANGED part

Spec == Init /\ [][Next]_libraryVars

\* Every call, in any order and on either circular buffer, does to what the iterators
\* give one of the things the comment on the class promises, and nothing else.
IsBoundedQueue == Promise!Init /\ [][part = "buffers" => Promise!Next]_bufferVars
===============================================================================
