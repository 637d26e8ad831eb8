------------------------------- MODULE Exercises -------------------------------
(***************************************************************************)
(* Five small programs side by side: strings and optionals that own        *)
(* buffers, files that own streams, smart pointers that share a Worker,    *)
(* calls that share the unit of a semaphore, and an index beside a map.    *)
(* They have nothing to do with each other; a behaviour runs one of them.  *)
(***************************************************************************)
EXTENDS Optional, File, IntrusivePtr, SeastarSemaphore, ObjectIndex

VARIABLE program

stringVars == <<mem, torn>>
vars == <<program, stringVars, fileVars, ptrVars, semVars, indexVars>>

Init == /\ program \in {"strings", "files", "pointers", "semaphore", "index"}
        /\ StringsInit /\ FileInit /\ PtrInit /\ SemInit /\ IndexInit

RunStrings == /\ program = "strings" /\ StringsNext
              /\ UNCHANGED <<program, fileVars, ptrVars, semVars, indexVars>>
RunFiles == /\ program = "files" /\ FileNext
            /\ UNCHANGED <<program, stringVars, ptrVars, semVars, indexVars>>
RunPointers == /\ program = "pointers" /\ PtrNext
               /\ UNCHANGED <<program, stringVars, fileVars, semVars, indexVars>>
RunSemaphore(A) == /\ program = "semaphore" /\ A
                   /\ UNCHANGED <<program, stringVars, fileVars, ptrVars, indexVars>>
RunIndex == /\ program = "index" /\ IndexNext
            /\ UNCHANGED <<program, stringVars, fileVars, ptrVars, semVars>>

Next == RunStrings \/ RunFiles \/ RunPointers \/ RunSemaphore(SemNext) \/ RunIndex

(* The reactor runs what is ready, and a sleep ends. When calls are made is *)
(* up to the program.                                                       *)
Fairness == \A i \in Tasks : WF_vars(RunSemaphore(SemStep(i)))

Spec == Init /\ [][Next]_vars /\ Fairness

(* The texts of the run: they differ in length, and one is the empty one. *)
TwoTexts == {<<>>, <<"a", "b">>}
=============================================================================
