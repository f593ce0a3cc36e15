--------------------------- MODULE SnifferStartup ---------------------------
(***************************************************************************)
(* How the queue between the game and IntPe9 comes into being. When IntPe9 *)
(* starts, one of its threads injects a DLL into the game, and another one *)
(* creates the message_queue that the DLL opens by its name when it is     *)
(* loaded. Neither waits for the other.                                    *)
(*                                                                         *)
(* The queue is in a file that both map. Whoever creates it writes it      *)
(* full of zeros, piece by piece, maps it and constructs the queue in it;  *)
(* its first word tells those who open it how far that is. The file stays  *)
(* when its creator ends, in whatever state it is in.                      *)
(***************************************************************************)
EXTENDS Integers

CONSTANTS
  Chunks,     \* pieces in which truncate_file() writes the file
  MaxFiles    \* bound: times that IntPe9 creates a queue

ASSUME StartupAssumption == Chunks \in Nat \ {0} /\ MaxFiles \in Nat \ {0}

Files == 1 .. MaxFiles
OneByte == Chunks + 1     \* the size of a file that was truncated to 1

VARIABLES
  name,       \* the file of name "packetSniffer"; 0 if there is none
  files,      \* number of files that were created
  size,       \* of each file, in pieces written
  word,       \* the first word of each
  built,      \* files in which a queue was constructed
  ui,         \* where packetPoll() is; "off" if IntPe9 does not run
  uiFile,     \* the file it creates
  injected,   \* as in listenerLoop()
  dll,        \* where the loading of the DLL into the game is
  dllFile,    \* the file that the DLL opens
  dllMapped,  \* pieces of it that it has mapped
  ready       \* whether that file was complete when the DLL opened it

fileVars == <<name, files, size, word, built>>
uiVars == <<ui, uiFile>>
dllVars == <<dll, dllFile, dllMapped, ready>>
vars == <<fileVars, uiVars, injected, dllVars>>

Loading == {"open", "size", "map", "wait"}

\* The game runs, IntPe9 does not.
Init ==
  /\ name = 0 /\ files = 0 /\ built = {}
  /\ size = [f \in Files |-> 0] /\ word = [f \in Files |-> "uninitialized"]
  /\ ui = "off" /\ uiFile = 0 /\ injected = FALSE
  /\ dll = "absent" /\ dllFile = 0 /\ dllMapped = 0 /\ ready = FALSE

-----------------------------------------------------------------------------
(***************************************************************************)
(* IntPe9: MainGui() starts both threads.                                  *)
(***************************************************************************)

Start ==
  /\ ui = "off" /\ files < MaxFiles
  /\ ui' = "remove" /\ injected' = FALSE
  /\ UNCHANGED <<fileVars, uiFile, dllVars>>

\* inject(): the result of LoadLibrary() in the game is not awaited. A DLL that is
\* there is not loaded again.
Inject ==
  /\ ui # "off" /\ ~injected
  /\ injected' = TRUE
  /\ dll' = IF dll = "absent" THEN "open" ELSE dll
  /\ UNCHANGED <<fileVars, uiVars, dllFile, dllMapped, ready>>

\* message_queue::remove(): the file of an earlier run loses its name.
Remove ==
  /\ ui = "remove"
  /\ name' = 0 /\ ui' = "create"
  /\ UNCHANGED <<files, size, word, built, uiFile, injected, dllVars>>

CreateDevice ==
  /\ ui = "create" /\ name = 0
  /\ files' = files + 1 /\ name' = files + 1 /\ uiFile' = files + 1
  /\ ui' = "write"
  /\ UNCHANGED <<size, word, built, injected, dllVars>>

\* truncate_file(): a piece of the file.
TruncateDevice ==
  /\ ui = "write"
  /\ size' = [size EXCEPT ![uiFile] = @ + 1]
  /\ ui' = IF size[uiFile] + 1 = Chunks THEN "map" ELSE "write"
  /\ UNCHANGED <<name, files, word, built, uiFile, injected, dllVars>>

MapCreated ==
  /\ ui = "map" /\ ui' = "claim"
  /\ UNCHANGED <<fileVars, uiFile, injected, dllVars>>

Claim ==
  /\ ui = "claim" /\ word[uiFile] = "uninitialized"
  /\ word' = [word EXCEPT ![uiFile] = "initializing"]
  /\ ui' = "construct"
  /\ UNCHANGED <<name, files, size, built, uiFile, injected, dllVars>>

Construct ==
  /\ ui = "construct"
  /\ built' = built \cup {uiFile}
  /\ ui' = "publish"
  /\ UNCHANGED <<name, files, size, word, uiFile, injected, dllVars>>

\* Fault: the word keeps saying that the segment is being initialized.
PublishNothing ==
  /\ ui = "publish" /\ ui' = "receive"
  /\ UNCHANGED <<fileVars, uiFile, injected, dllVars>>

Publish ==
  /\ ui = "publish"
  /\ word' = [word EXCEPT ![uiFile] = "initialized"]
  /\ ui' = "receive"
  /\ UNCHANGED <<name, files, size, built, uiFile, injected, dllVars>>

\* The file cannot be written, or not be mapped.
Fail ==
  /\ ui \in {"write", "map"}
  /\ ui' = "spoil"
  /\ UNCHANGED <<fileVars, uiFile, injected, dllVars>>

\* The file is truncated to 1, which fails if it is mapped; the exception, which
\* nobody catches, ends IntPe9.
Spoil ==
  /\ ui = "spoil" /\ ui' = "off"
  /\ size' = IF dllFile = uiFile /\ dll \in {"wait", "attached"} THEN size
             ELSE [size EXCEPT ![uiFile] = OneByte]
  /\ UNCHANGED <<name, files, word, built, uiFile, injected, dllVars>>

\* IntPe9 is closed. Its threads stop where they are.
Quit ==
  /\ ui # "off" /\ ui' = "off"
  /\ UNCHANGED <<fileVars, uiFile, injected, dllVars>>

-----------------------------------------------------------------------------
(***************************************************************************)
(* The game, in which the DLL is loaded: the constructor of Skeleton opens *)
(* the queue. If that fails the DLL is not loaded.                         *)
(***************************************************************************)

OpenDevice ==
  /\ dll = "open"
  /\ dll' = IF name = 0 THEN "absent" ELSE "size"
  /\ dllFile' = name
  /\ ready' = (name # 0 /\ word[name] = "initialized")
  /\ UNCHANGED <<fileVars, uiVars, injected, dllMapped>>

\* The loop over get_file_size() ends.
ReadSize ==
  /\ dll = "size" /\ size[dllFile] # 0
  /\ dll' = IF size[dllFile] = OneByte THEN "absent" ELSE "map"
  /\ UNCHANGED <<fileVars, uiVars, injected, dllFile, dllMapped, ready>>

\* Fault: a page is mapped, whatever the size.
MapFirst ==
  /\ dll = "map"
  /\ dllMapped' = 1 /\ dll' = "wait"
  /\ UNCHANGED <<fileVars, uiVars, injected, dllFile, ready>>

\* mapped_region() maps what the file holds now.
MapOpened ==
  /\ dll = "map"
  /\ dllMapped' = size[dllFile] /\ dll' = "wait"
  /\ UNCHANGED <<fileVars, uiVars, injected, dllFile, ready>>

\* Fault: only a segment nobody has begun to initialize is waited for.
ReadWordEarly ==
  /\ dll = "wait" /\ word[dllFile] # "uninitialized"
  /\ dll' = "attached"
  /\ UNCHANGED <<fileVars, uiVars, injected, dllFile, dllMapped, ready>>

\* The loop over the first word ends.
ReadWord ==
  /\ dll = "wait" /\ word[dllFile] = "initialized"
  /\ dll' = "attached"
  /\ UNCHANGED <<fileVars, uiVars, injected, dllFile, dllMapped, ready>>

\* The game is closed, and another one started.
Restart ==
  /\ dll' = "absent" /\ dllFile' = 0 /\ dllMapped' = 0 /\ ready' = FALSE
  /\ UNCHANGED <<fileVars, uiVars, injected>>

Poll ==
  \/ Remove \/ CreateDevice \/ TruncateDevice \/ MapCreated \/ Claim \/ Construct \/ Publish
  \/ Spoil

Load == OpenDevice \/ ReadSize \/ MapOpened \/ ReadWord

Next == Start \/ Inject \/ Poll \/ Fail \/ Quit \/ Load \/ Restart

Spec == Init /\ [][Next]_vars

\* The threads of IntPe9, once they are started, and the one that loads the DLL get
\* their turn.
FairSpec == Spec /\ WF_vars(Inject) /\ WF_vars(Poll) /\ WF_vars(Load)

-----------------------------------------------------------------------------
(***************************************************************************)
(* Properties.                                                             *)
(***************************************************************************)

\* Whoever has opened a queue finds one that was constructed, also if its creator
\* was stopped at any point, and a thread receives from a queue that has the name.
OpenedIsBuilt ==
  /\ dll = "attached" => dllFile \in built
  /\ ui = "receive" => uiFile \in built /\ name = uiFile

\* The DLL has all of the queue if the queue was complete when it opened it.
LateIsWhole == dll = "attached" /\ ready => dllMapped = Chunks

\* Nobody will complete a file: the run of IntPe9 that created it has ended.
Abandoned(f) == word[f] # "initialized" /\ (ui = "off" \/ uiFile # f)

\* The loading of the DLL, for which the game waits, comes to an end, unless IntPe9
\* ends before it has completed the file that the DLL has opened.
LoadingEnds ==
  dll \in Loading ~> dll \notin Loading \/ (dll # "open" /\ Abandoned(dllFile))

=============================================================================
