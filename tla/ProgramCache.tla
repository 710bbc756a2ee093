---------------------------- MODULE ProgramCache ----------------------------
(***************************************************************************)
(* The cache of compiled programs.  A process that creates a skeleton      *)
(* tries to load one binary for each of its devices from the working       *)
(* directory, compiles the source if one of them is missing, and may save  *)
(* what it compiled, one file after the other.  The directory outlives the *)
(* processes and is shared by them; nothing locks it.                      *)
(***************************************************************************)
EXTENDS Integers, Sequences

CONSTANTS
  Process,     \* programs running in the same directory, now or later
  NumDevices,
  Skeleton,    \* what is asked for: a source and the name of a function in it
  Key(_),      \* the hash of a skeleton's source
  Blocks,      \* bound: the writes that it takes to save a binary
  Tolerated    \* the conditions below that need not hold

(***************************************************************************)
(* When the cache is right; neither code nor documentation asks for it.    *)
(*   oneFunction  no two skeletons share a source                          *)
(*   apart        nobody loads what somebody else may be saving            *)
(*   finished     a process is not stopped while it writes a file          *)
(***************************************************************************)
Condition == {"oneFunction", "apart", "finished"}

ASSUME NumDevicesAssumption == NumDevices \in Nat \ {0}
ASSUME BlocksAssumption     == Blocks \in Nat \ {0}
ASSUME ToleratedAssumption  == Tolerated \subseteq Condition

Device == 0 .. NumDevices - 1

Meets(condition, holds) == condition \in Tolerated \/ holds

\* A file is a sequence of blocks.  A block nobody wrote is a hole.
Missing == << >>
Hole    == <<"hole">>

Block(s, d, k) == <<s, d, k>>

Compiled(s, d) == [k \in 1 .. Blocks |-> Block(s, d, k)]

\* Mistake for BinaryFilename: one file for all devices of a name.
BinaryFilename_ByName(s, d) == <<Key(s), 0>>

\* The device's name is part of a file name too; ids stand for both.
BinaryFilename(s, d) == <<Key(s), d>>

Filename == {BinaryFilename(s, d) : s \in Skeleton, d \in Device}

NoPrograms == [d \in {} |-> Missing]

-----------------------------------------------------------------------------
VARIABLES
  exists,    \* the names of the files there are
  content,   \* content[f]: the blocks of file f
  pc,        \* pc[p]: what the process does next
  asked,     \* asked[p]: the skeleton it creates
  load,      \* load[p]: is SKELCL_LOAD_BINARY set?
  save,      \* save[p]: is SKELCL_SAVE_BINARY set?
  device,    \* device[p]: the device that the loop over the devices has got to
  position,  \* position[p]: the size of the file it reads, or the blocks written
  programs   \* programs[p][d]: the binary of the program for device d

files == <<exists, content>>
vars  == <<exists, content, pc, asked, load, save, device, position, programs>>

File(p) == BinaryFilename(asked[p], device[p])

Busy(p) == pc[p] \notin {"idle", "aborted"}

\* Mistake for LastDevice: one more.
LastDevice_OneMore(p) == device[p] = NumDevices

LastDevice(p) == device[p] + 1 = NumDevices

\* A process that loads s and one that saves it do not run at the same time.
Apart(p, s, l, v) ==
  \A q \in Process \ {p} :
    Busy(q) /\ Key(asked[q]) = Key(s) => ~ (l /\ save[q]) /\ ~ (v /\ load[q])

Create(p, s, l, v) ==
  /\ pc[p] = "idle"
  /\ Meets("oneFunction", \A t \in Skeleton : Key(t) = Key(s) => t = s)
  /\ Meets("apart", Apart(p, s, l, v))
  /\ asked' = [asked EXCEPT ![p] = s]
  /\ load' = [load EXCEPT ![p] = l]
  /\ save' = [save EXCEPT ![p] = v]
  /\ programs' = [programs EXCEPT ![p] = NoPrograms]
  /\ device' = [device EXCEPT ![p] = 0]
  /\ pc' = [pc EXCEPT ![p] = IF l THEN "open" ELSE "build"]
  /\ UNCHANGED <<exists, content, position>>

\* Mistake for OpenBinary: the binaries found so far are kept.
OpenBinary_Kept(p) ==
  /\ pc[p] = "open"
  /\ IF File(p) \in exists
     THEN /\ position' = [position EXCEPT ![p] = Len(content[File(p)])]
          /\ pc' = [pc EXCEPT ![p] = "read"]
          /\ UNCHANGED programs
     ELSE /\ pc' = [pc EXCEPT ![p] = "build"]
          /\ UNCHANGED <<position, programs>>
  /\ UNCHANGED <<files, asked, load, save, device>>

OpenBinary(p) ==
  /\ pc[p] = "open"
  /\ IF File(p) \in exists
     THEN /\ position' = [position EXCEPT ![p] = Len(content[File(p)])]
          /\ pc' = [pc EXCEPT ![p] = "read"]
          /\ UNCHANGED programs
     ELSE /\ programs' = [programs EXCEPT ![p] = NoPrograms]
          /\ pc' = [pc EXCEPT ![p] = "build"]
          /\ UNCHANGED position
  /\ UNCHANGED <<files, asked, load, save, device>>

\* The size taken before may not be the size now.
Binary(p) ==
  [k \in 1 .. position[p] |->
     IF k <= Len(content[File(p)]) THEN content[File(p)][k] ELSE Hole]

\* A binary that is not whole is refused, by an exception that nobody catches.
ReadBinary(p) ==
  LET binary == Binary(p)
      d      == device[p]
  IN  /\ pc[p] = "read"
      /\ IF \E s \in Skeleton : binary = Compiled(s, d)
         THEN /\ programs' = [programs EXCEPT ![p] =
                   [e \in 0 .. d |-> IF e = d THEN binary ELSE @[e]]]
              /\ device' = [device EXCEPT ![p] = d + 1]
              /\ pc' = [pc EXCEPT ![p] = IF LastDevice(p) THEN "build" ELSE "open"]
         ELSE /\ pc' = [pc EXCEPT ![p] = "aborted"]
              /\ UNCHANGED <<programs, device>>
      /\ UNCHANGED <<files, asked, load, save, position>>

Build(p) ==
  /\ pc[p] = "build"
  /\ IF programs[p] = NoPrograms
     THEN /\ programs' = [programs EXCEPT ![p] =
               [d \in Device |-> Compiled(asked[p], d)]]
          /\ pc' = [pc EXCEPT ![p] = IF save[p] THEN "save" ELSE "ready"]
     ELSE /\ pc' = [pc EXCEPT ![p] = "ready"]
          /\ UNCHANGED programs
  /\ device' = [device EXCEPT ![p] = 0]
  /\ UNCHANGED <<files, asked, load, save, position>>

\* An existing file is truncated.
OpenForSave(p) ==
  /\ pc[p] = "save"
  /\ exists' = exists \cup {File(p)}
  /\ content' = [content EXCEPT ![File(p)] = Missing]
  /\ position' = [position EXCEPT ![p] = 0]
  /\ pc' = [pc EXCEPT ![p] = "write"]
  /\ UNCHANGED <<asked, load, save, device, programs>>

\* Mistake for Written: at the end of the file.
Written_AtEnd(blocks, k, b) == Append(blocks, b)

\* A file of blocks with block b written at position k.
Written(blocks, k, b) ==
  [j \in 1 .. (IF k > Len(blocks) THEN k ELSE Len(blocks)) |->
     IF j = k THEN b ELSE IF j <= Len(blocks) THEN blocks[j] ELSE Hole]

WriteBlock(p) ==
  LET k == position[p] + 1
  IN  /\ pc[p] = "write"
      /\ content' = [content EXCEPT ![File(p)] = Written(@, k, programs[p][device[p]][k])]
      /\ position' = [position EXCEPT ![p] = k]
      /\ IF k < Blocks
         THEN UNCHANGED <<pc, device>>
         ELSE /\ device' = [device EXCEPT ![p] = @ + 1]
              /\ pc' = [pc EXCEPT ![p] =
                          IF LastDevice(p) THEN "ready" ELSE "save"]
      /\ UNCHANGED <<exists, asked, load, save, programs>>

\* The process ends, whatever it is doing, and another one may follow.
Stop(p) ==
  /\ pc[p] # "idle"
  /\ Meets("finished", pc[p] # "write")
  /\ pc' = [pc EXCEPT ![p] = "idle"]
  /\ UNCHANGED <<files, asked, load, save, device, position, programs>>

-----------------------------------------------------------------------------
Init ==
  /\ exists = {}
  /\ content = [f \in Filename |-> Missing]
  /\ pc = [p \in Process |-> "idle"]
  /\ asked \in [Process -> Skeleton]
  /\ load = [p \in Process |-> FALSE]
  /\ save = [p \in Process |-> FALSE]
  /\ device = [p \in Process |-> 0]
  /\ position = [p \in Process |-> 0]
  /\ programs = [p \in Process |-> NoPrograms]

Work(p) ==
  \/ OpenBinary(p)
  \/ ReadBinary(p)
  \/ Build(p)
  \/ OpenForSave(p)
  \/ WriteBlock(p)

Next ==
  \E p \in Process :
    \/ \E s \in Skeleton, l, v \in BOOLEAN : Create(p, s, l, v)
    \/ Work(p)
    \/ Stop(p)

Spec == Init /\ [][Next]_vars

-----------------------------------------------------------------------------
(***************************************************************************)
(* Properties.                                                             *)
(***************************************************************************)
PC == {"idle", "open", "read", "build", "save", "write", "ready", "aborted"}

\* What is in the file of key and device f: blocks of such programs.
BlocksOf(f) ==
  {Hole} \cup {Block(s, f[2], k) : s \in {t \in Skeleton : Key(t) = f[1]}, k \in 1 .. Blocks}

(***************************************************************************)
(* The loop is at a device whenever a file is accessed, and files hold     *)
(* nothing but blocks that belong there.                                   *)
(***************************************************************************)
TypeOK ==
  /\ exists \subseteq Filename
  /\ DOMAIN content = Filename
  /\ \A f \in Filename : content[f] \in Seq(BlocksOf(f))
  /\ pc \in [Process -> PC]
  /\ asked \in [Process -> Skeleton]
  /\ load \in [Process -> BOOLEAN]
  /\ save \in [Process -> BOOLEAN]
  /\ device \in [Process -> 0 .. NumDevices]
  /\ position \in [Process -> Nat]
  /\ DOMAIN programs = Process
  /\ \A p \in Process : pc[p] \in {"open", "read", "save", "write"} => device[p] \in Device
  /\ \A p \in Process : pc[p] = "write" => position[p] < Blocks

(***************************************************************************)
(* A skeleton runs the function that was asked for on every device, also   *)
(* if only some of its binaries were in the cache, or another process      *)
(* saves at the same time, or was stopped while it did.                    *)
(***************************************************************************)
RunsWhatWasAsked ==
  \A p \in Process : pc[p] = "ready" =>
    programs[p] = [d \in Device |-> Compiled(asked[p], d)]

(***************************************************************************)
(* A file that nobody is writing is whole, even if several processes wrote *)
(* it at the same time.                                                    *)
(***************************************************************************)
FilesAreWhole ==
  \A f \in exists :
    \/ \E p \in Process : pc[p] = "write" /\ File(p) = f
    \/ \E s \in Skeleton : content[f] = Compiled(s, f[2])

(***************************************************************************)
(* No process is ended by what it finds in the cache.                      *)
(***************************************************************************)
NobodyAborts == \A p \in Process : pc[p] # "aborted"
=============================================================================
