--------------------------------- MODULE File ---------------------------------
(***************************************************************************)
(* Class File of 01-cpp-foundation/exercises/raii_file.cpp: variables of   *)
(* any program that own a stream each and can only be moved. Which streams *)
(* are open is stdio's part and external.                                  *)
(***************************************************************************)
CONSTANTS Files,     \* variables of class File
          Streams,   \* what fopen can return: an address used again when closed
          NoStream,  \* nullptr
          NoFile     \* the handle of a variable not constructed

ASSUME FileNullAssumption == NoStream \notin Streams /\ NoFile \notin Streams

VARIABLES handle, open

fileVars == <<handle, open>>

FileInit == handle = [f \in Files |-> NoFile] /\ open = {}

Constructed(f) == handle[f] # NoFile

(* if (handle) fclose(handle); *)
Close(f) == open' = open \ {handle[f]}

(* File f(filename, mode): fopen succeeds. If it fails the constructor      *)
(* throws, there is no File, and nothing has changed.                       *)
OpenFile(f) ==
  /\ ~Constructed(f)
  /\ \E h \in Streams \ open : /\ handle' = [handle EXCEPT ![f] = h]
                               /\ open' = open \cup {h}

CloseFile(f) ==
  /\ Constructed(f)
  /\ Close(f)
  /\ handle' = [handle EXCEPT ![f] = NoFile]

(* File f(std::move(g)) *)
MoveFile(f, g) ==
  /\ ~Constructed(f) /\ Constructed(g)
  /\ handle' = [handle EXCEPT ![f] = handle[g], ![g] = NoStream]
  /\ UNCHANGED open

(* Bug variant: the stream that was open is forgotten. *)
MoveAssignFileLeaks(f, g) ==
  /\ Constructed(f) /\ Constructed(g) /\ f # g
  /\ handle' = [handle EXCEPT ![f] = handle[g], ![g] = NoStream]
  /\ UNCHANGED open

(* f = std::move(g); of itself, nothing. *)
MoveAssignFile(f, g) ==
  /\ Constructed(f) /\ Constructed(g) /\ f # g
  /\ Close(f)
  /\ handle' = [handle EXCEPT ![f] = handle[g], ![g] = NoStream]

FileNext == \E f \in Files :
  \/ OpenFile(f) \/ CloseFile(f)
  \/ \E g \in Files : MoveFile(f, g) \/ MoveAssignFile(f, g)

-----------------------------------------------------------------------------
(* Each open stream belongs to one File, and no File holds a closed one, so *)
(* that fclose is called once per fopen: after any moves (33-44) and when   *)
(* fopen hands out an address again.                                        *)
StreamsOwned ==
  LET Owners == {f \in Files : handle[f] \notin {NoStream, NoFile}}
  IN  /\ open = {handle[f] : f \in Owners}
      /\ \A f, g \in Owners : handle[f] = handle[g] => f = g
=============================================================================
