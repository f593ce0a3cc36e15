------------------------ MODULE SnifferStartupProofs ------------------------
(***************************************************************************)
(* What holds of the start of IntPe9 and the loading of its DLL for files  *)
(* of any size and any number of starts.                                   *)
(*                                                                         *)
(* OpenedIsBuilt and LateIsWhole speak of the end of two ways that cross   *)
(* in the file. Inv follows the creator (Creator): what it has done to its *)
(* file at every step, the ways in which it fails included; what the first *)
(* word says of a file, whoever reads it when (WordTells); and the opener  *)
(* (Opener): what it knows of the file it has opened, which another run    *)
(* than the present one may have created.                                  *)
(***************************************************************************)
EXTENDS SnifferStartup, TLAPS

TypeInv ==
  /\ files \in 0 .. MaxFiles
  /\ name \in 0 .. files /\ uiFile \in 0 .. files /\ dllFile \in 0 .. files
  /\ size \in [Files -> 0 .. OneByte]
  /\ word \in [Files -> {"uninitialized", "initializing", "initialized"}]
  /\ built \subseteq Files
  /\ ready \in BOOLEAN

\* What the creator does before it has a file, and with it.
Before == {"remove", "create"}
Unclaimed == {"write", "map", "claim", "spoil"}
Claimed == {"construct", "publish", "receive"}

Creator ==
  /\ ui \in {"off"} \cup Before \cup Unclaimed \cup Claimed
  /\ ui \in Before => files < MaxFiles
  /\ ui \in Unclaimed \cup Claimed => uiFile # 0 /\ name = uiFile
  /\ ui \in Unclaimed => word[uiFile] = "uninitialized"
  /\ ui = "write" => size[uiFile] < Chunks
  /\ ui \in {"map", "claim"} \cup Claimed => size[uiFile] = Chunks
  /\ ui = "construct" => word[uiFile] = "initializing"
  /\ ui \in {"publish", "receive"} => uiFile \in built

WordTells ==
  \A f \in Files :
    /\ f > files => size[f] = 0 /\ word[f] = "uninitialized"
    /\ word[f] = "initialized" => f \in built /\ size[f] = Chunks

Opener ==
  /\ dll \in {"absent", "attached"} \cup Loading
  /\ dll \in {"size", "map", "wait", "attached"} => dllFile # 0
  /\ ready => dllFile # 0 /\ word[dllFile] = "initialized"
  /\ ready /\ dll \in {"wait", "attached"} => dllMapped = Chunks
  /\ dll = "attached" => dllFile \in built

Inv == TypeInv /\ Creator /\ WordTells /\ Opener

LEMMA InitInv == Init => Inv
<1> SUFFICES ASSUME Init PROVE Inv
  OBVIOUS
<1>1. 0 \in 0 .. MaxFiles /\ 0 \in 0 .. OneByte /\ 0 \in 0 .. 0
  BY StartupAssumption DEF OneByte
<1>2. TypeInv
  BY <1>1 DEF Init, TypeInv
<1>3. Creator /\ Opener
  BY DEF Init, Creator, Opener, Before, Unclaimed, Claimed
<1>4. WordTells
  BY DEF Init, WordTells
<1> QED
  BY <1>2, <1>3, <1>4 DEF Inv

-----------------------------------------------------------------------------

\* Where the creator and the opener are is disturbed by nobody else.
LEMMA CreatorStays ==
  ASSUME Inv, UNCHANGED <<fileVars, uiVars>>
  PROVE  Creator' /\ WordTells'
BY DEF Inv, Creator, WordTells, fileVars, uiVars

LEMMA OpenerStays ==
  ASSUME Inv, UNCHANGED <<size, word, built, dllVars>>
  PROVE  Opener'
BY DEF Inv, Opener, dllVars

\* The creator's steps that only move it on.
LEMMA UiStepInv ==
  ASSUME Inv, Start \/ MapCreated \/ Fail \/ Quit
  PROVE  Inv'
<1>1. UNCHANGED <<fileVars, uiFile, dllVars>>
  BY DEF Start, MapCreated, Fail, Quit
<1>2. TypeInv' /\ WordTells'
  BY <1>1 DEF Inv, TypeInv, WordTells, fileVars, dllVars
<1>3. Opener'
  BY <1>1, OpenerStays DEF fileVars
<1>4. Creator'
  BY <1>1 DEF Inv, TypeInv, Creator, Start, MapCreated, Fail, Quit, fileVars, Before, Unclaimed, Claimed
<1> QED
  BY <1>2, <1>3, <1>4 DEF Inv

\* A name and a file come and go.
LEMMA NameStepInv ==
  ASSUME Inv, Remove \/ CreateDevice
  PROVE  Inv'
<1>1. Opener'
  BY OpenerStays DEF Remove, CreateDevice
<1>2. CASE Remove
  <2>1. TypeInv' /\ Creator' /\ WordTells'
    BY <1>2 DEF Inv, TypeInv, Creator, WordTells, Remove, dllVars, Before, Unclaimed, Claimed
  <2> QED
    BY <2>1, <1>1 DEF Inv
<1>3. CASE CreateDevice
  <2>1. files < MaxFiles
    BY <1>3 DEF Inv, Creator, CreateDevice, Before
  <2>2. files + 1 \in Files /\ files \in Nat
    BY <2>1, StartupAssumption DEF Inv, TypeInv, Files
  <2>3. TypeInv'
    BY <1>3, <2>1, <2>2, StartupAssumption DEF Inv, TypeInv, CreateDevice, dllVars
  <2>4. WordTells'
    BY <1>3, <2>2 DEF Inv, TypeInv, WordTells, CreateDevice, Files
  <2>5. size[files + 1] = 0 /\ word[files + 1] = "uninitialized"
    BY <2>2 DEF Inv, WordTells
  <2>6. Creator'
    BY <1>3, <2>2, <2>5, StartupAssumption DEF Inv, Creator, CreateDevice, Before, Unclaimed, Claimed
  <2> QED
    BY <1>1, <2>3, <2>4, <2>6 DEF Inv
<1> QED
  BY <1>2, <1>3

\* The size of the creator's file changes before the file is claimed.
LEMMA SizeStepInv ==
  ASSUME Inv, TruncateDevice \/ Spoil
  PROVE  Inv'
<1> DEFINE f == uiFile
<1>1. f \in Files /\ f <= files /\ word[f] = "uninitialized" /\ f # 0
  BY StartupAssumption DEF Inv, TypeInv, Creator, TruncateDevice, Spoil, Unclaimed, Files
<1>2. /\ UNCHANGED <<name, files, word, built, uiFile, dllVars>>
      /\ size' \in [Files -> 0 .. OneByte]
      /\ \A g \in Files : g # f => size'[g] = size[g]
  <2>1. CASE TruncateDevice
    <3>1. size[f] \in 0 .. OneByte /\ size[f] < Chunks
      BY <1>1, <2>1 DEF Inv, TypeInv, Creator, TruncateDevice
    <3>2. size[f] + 1 \in 0 .. OneByte
      BY <3>1, StartupAssumption DEF OneByte
    <3> QED
      BY <1>1, <2>1, <3>2 DEF Inv, TypeInv, TruncateDevice
  <2>2. CASE Spoil
    <3>1. OneByte \in 0 .. OneByte
      BY StartupAssumption DEF OneByte
    <3> QED
      BY <1>1, <2>2, <3>1 DEF Inv, TypeInv, Spoil
  <2> QED
    BY <2>1, <2>2
<1>3. TypeInv'
  BY <1>2 DEF Inv, TypeInv, dllVars
<1>4. WordTells'
  BY <1>1, <1>2 DEF Inv, TypeInv, WordTells, Files
<1>5. Opener'
  BY <1>2 DEF Inv, Opener, dllVars
<1>6. Creator'
  <2>1. CASE TruncateDevice
    <3>1. size[f] \in 0 .. OneByte /\ size[f] < Chunks /\ size'[f] = size[f] + 1
      BY <1>1, <2>1 DEF Inv, TypeInv, Creator, TruncateDevice
    <3>2. size'[f] = Chunks \/ (size'[f] < Chunks /\ size[f] + 1 # Chunks)
      BY <3>1, StartupAssumption DEF OneByte
    <3> QED
      BY <1>1, <1>2, <2>1, <3>1, <3>2 DEF Inv, Creator, TruncateDevice, Before, Unclaimed, Claimed
  <2>2. CASE Spoil
    BY <2>2 DEF Spoil, Creator, Before, Unclaimed, Claimed
  <2> QED
    BY <2>1, <2>2
<1> QED
  BY <1>3, <1>4, <1>5, <1>6 DEF Inv

\* The creator claims its file, constructs the queue, and says so.
LEMMA BuildStepInv ==
  ASSUME Inv, Claim \/ Construct \/ Publish
  PROVE  Inv'
<1> DEFINE f == uiFile
<1>1. /\ f \in Files /\ f <= files /\ f # 0 /\ size[f] = Chunks
      /\ ~Publish => word[f] # "initialized"
      /\ Publish => f \in built
  BY StartupAssumption
     DEF Inv, TypeInv, Creator, Claim, Construct, Publish, Unclaimed, Claimed, Files
<1>2. /\ UNCHANGED <<name, files, size, uiFile, dllVars>>
      /\ word' \in [Files -> {"uninitialized", "initializing", "initialized"}]
      /\ built \subseteq built' /\ built' \subseteq built \cup {f}
      /\ \A g \in Files : g # f => word'[g] = word[g]
      /\ word'[f] = "initialized" => f \in built'
  <2>1. CASE Claim
    BY <1>1, <2>1 DEF Inv, TypeInv, Claim
  <2>2. CASE Construct
    BY <1>1, <2>2 DEF Inv, TypeInv, Creator, Construct
  <2>3. CASE Publish
    BY <1>1, <2>3 DEF Inv, TypeInv, Publish
  <2> QED
    BY <2>1, <2>2, <2>3
<1>3. TypeInv'
  BY <1>1, <1>2 DEF Inv, TypeInv, dllVars
<1>4. WordTells'
  BY <1>1, <1>2 DEF Inv, TypeInv, WordTells, Files
<1>5. Opener'
  <2>1. ready => dllFile \in Files
    BY StartupAssumption DEF Inv, TypeInv, Opener, Files
  <2>2. ready => word'[dllFile] = "initialized"
    <3>1. CASE Publish
      BY <1>1, <2>1, <3>1 DEF Inv, TypeInv, Opener, Publish
    <3>2. CASE ~Publish
      BY <1>1, <1>2, <2>1, <3>2 DEF Inv, Opener
    <3> QED
      BY <3>1, <3>2
  <2> QED
    BY <1>2, <2>2 DEF Inv, Opener, dllVars
<1>6. Creator'
  BY <1>1 DEF Inv, TypeInv, Creator, Claim, Construct, Publish, Before, Unclaimed, Claimed
<1> QED
  BY <1>3, <1>4, <1>5, <1>6 DEF Inv

\* The opener goes on, or is taken back to the beginning.
LEMMA DllStepInv ==
  ASSUME Inv, Load \/ Inject \/ Restart
  PROVE  Inv'
<1>1. UNCHANGED <<fileVars, uiVars>>
  BY DEF Load, OpenDevice, ReadSize, MapOpened, ReadWord, Inject, Restart
<1>2. Creator' /\ WordTells'
  BY <1>1, CreatorStays
<1>3. TypeInv'
  <2>1. ready' \in BOOLEAN
    BY DEF Inv, TypeInv, Load, OpenDevice, ReadSize, MapOpened, ReadWord, Inject, Restart
  <2>2. dllFile' \in {0, name, dllFile}
    BY DEF Load, OpenDevice, ReadSize, MapOpened, ReadWord, Inject, Restart
  <2> QED
    BY <1>1, <2>1, <2>2 DEF Inv, TypeInv, fileVars, uiVars
<1>4. Opener'
  <2>1. \A g \in 0 .. files : g # 0 => g \in Files
    BY StartupAssumption DEF Inv, TypeInv, Files
  <2>2. CASE OpenDevice
    <3>1. ready' => name # 0 /\ word[name] = "initialized"
      BY <2>2 DEF OpenDevice
    <3> QED
      BY <2>2, <3>1, <1>1 DEF Inv, TypeInv, Opener, OpenDevice, Loading, fileVars
  <2>3. CASE ReadSize
    BY <2>3, <1>1 DEF Inv, Opener, ReadSize, Loading, fileVars
  <2>4. CASE MapOpened
    <3>1. ready => size[dllFile] = Chunks
      BY <2>1 DEF Inv, TypeInv, Opener, WordTells
    <3> QED
      BY <2>4, <3>1, <1>1 DEF Inv, Opener, MapOpened, Loading, fileVars
  <2>5. CASE ReadWord
    <3>1. dllFile \in built
      BY <2>1, <2>5 DEF Inv, TypeInv, Opener, WordTells, ReadWord
    <3> QED
      BY <2>5, <3>1, <1>1 DEF Inv, Opener, ReadWord, Loading, fileVars
  <2>6. CASE Inject
    BY <2>6, <1>1 DEF Inv, Opener, Inject, Loading, fileVars
  <2>7. CASE Restart
    BY <2>7, <1>1 DEF Opener, Restart, Loading
  <2> QED
    BY <2>2, <2>3, <2>4, <2>5, <2>6, <2>7 DEF Load
<1> QED
  BY <1>2, <1>3, <1>4 DEF Inv

LEMMA NextInv == Inv /\ [Next]_vars => Inv'
<1> SUFFICES ASSUME Inv, [Next]_vars PROVE Inv'
  OBVIOUS
<1>1. CASE UNCHANGED vars
  BY <1>1 DEF vars, fileVars, uiVars, dllVars, Inv, TypeInv, Creator, WordTells, Opener
<1> QED
  BY <1>1, UiStepInv, NameStepInv, SizeStepInv, BuildStepInv, DllStepInv DEF Next, Poll

LEMMA SpecInv == Spec => []Inv
BY InitInv, NextInv, PTL DEF Spec

-----------------------------------------------------------------------------

\* A queue that was opened has been constructed, and a thread receives from a queue
\* that has the name.
THEOREM OpenedIsBuiltTheorem == Spec => []OpenedIsBuilt
<1>1. Inv => OpenedIsBuilt
  BY DEF Inv, Creator, Opener, OpenedIsBuilt, Claimed
<1> QED
  BY <1>1, SpecInv, PTL

\* Who opens a queue that is complete has all of it.
THEOREM LateIsWholeTheorem == Spec => []LateIsWhole
<1>1. Inv => LateIsWhole
  BY DEF Inv, Opener, LateIsWhole
<1> QED
  BY <1>1, SpecInv, PTL

=============================================================================
