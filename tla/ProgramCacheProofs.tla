------------------------- MODULE ProgramCacheProofs -------------------------
(***************************************************************************)
(* What is proved of the program cache, for any processes, devices,        *)
(* skeletons and sizes of binaries.                                        *)
(***************************************************************************)
EXTENDS ProgramCache, TLAPS

AllPrograms(s) == [d \in Device |-> Compiled(s, d)]

FirstPrograms(s, n) == [d \in 0 .. n - 1 |-> Compiled(s, d)]

(***************************************************************************)
(* What a process has in programs, at each place.                          *)
(***************************************************************************)
ProgramsOK ==
  \A p \in Process :
    /\ pc[p] \in {"open", "read"} =>
         programs[p] = FirstPrograms(asked[p], device[p])
    /\ pc[p] = "build" => programs[p] \in {NoPrograms, AllPrograms(asked[p])}
    /\ pc[p] \in {"save", "write", "ready"} => programs[p] = AllPrograms(asked[p])

OnlyOne(s) == \A t \in Skeleton : Key(t) = Key(s) => t = s

Distinct == \A p \in Process : pc[p] # "idle" => OnlyOne(asked[p])

\* The inductive invariant.
IInv == TypeOK /\ ProgramsOK /\ Distinct

-----------------------------------------------------------------------------
(***************************************************************************)
(* Files.                                                                  *)
(***************************************************************************)
LEMMA FileType ==
  ASSUME TypeOK, NEW p \in Process, device[p] \in Device
  PROVE  /\ File(p) \in Filename
         /\ File(p)[1] = Key(asked[p]) /\ File(p)[2] = device[p]
         /\ content[File(p)] \in Seq(BlocksOf(File(p)))
  BY DEF TypeOK, File, Filename, BinaryFilename

LEMMA BlockOfFile ==
  ASSUME NEW s \in Skeleton, NEW d \in Device, NEW k \in 1 .. Blocks
  PROVE  Block(s, d, k) \in BlocksOf(BinaryFilename(s, d))
  BY DEF BlocksOf, BinaryFilename

\* A block of a file that is a block of some program is one of the file's key.
LEMMA BlockTells ==
  ASSUME NEW f, NEW s, NEW d, NEW k, Block(s, d, k) \in BlocksOf(f)
  PROVE  s \in Skeleton /\ Key(s) = f[1]
  <1>1. Block(s, d, k) # Hole
    BY DEF Block, Hole
  <1>2. PICK t \in Skeleton, j \in 1 .. Blocks :
          Key(t) = f[1] /\ Block(s, d, k) = Block(t, f[2], j)
    BY <1>1 DEF BlocksOf
  <1>3. s = t
    BY <1>2 DEF Block
  <1> QED BY <1>2, <1>3

LEMMA WrittenType ==
  ASSUME NEW S, Hole \in S, NEW blocks \in Seq(S), NEW k \in Nat \ {0}, NEW b \in S
  PROVE  Written(blocks, k, b) \in Seq(S)
  BY DEF Written

(***************************************************************************)
(* A binary that is accepted is the one asked for.                         *)
(***************************************************************************)
LEMMA AcceptedIsAsked ==
  ASSUME IInv, NEW p \in Process, pc[p] = "read",
         NEW s \in Skeleton, Binary(p) = Compiled(s, device[p])
  PROVE  Binary(p) = Compiled(asked[p], device[p])
  <1> DEFINE f == File(p)
  <1>1. device[p] \in Device /\ asked[p] \in Skeleton /\ position[p] \in Nat
    BY DEF IInv, TypeOK
  <1>2. f[1] = Key(asked[p]) /\ content[f] \in Seq(BlocksOf(f))
    BY <1>1, FileType DEF IInv
  <1>3. OnlyOne(asked[p])
    BY DEF IInv, Distinct
  <1>4. DOMAIN Compiled(s, device[p]) = 1 .. Blocks /\ 1 \in 1 .. Blocks
    BY BlocksAssumption DEF Compiled
  <1>5. Compiled(s, device[p])[1] = Block(s, device[p], 1)
    BY <1>4 DEF Compiled
  <1>6. DOMAIN Binary(p) = 1 .. position[p]
    BY DEF Binary
  <1>7. 1 \in 1 .. position[p]
    BY <1>4, <1>6
  <1>8. Binary(p)[1] \in BlocksOf(f)
    <2>1. Binary(p)[1] = IF 1 <= Len(content[f]) THEN content[f][1] ELSE Hole
      BY <1>7 DEF Binary
    <2>2. Hole \in BlocksOf(f)
      BY DEF BlocksOf
    <2> HIDE DEF f
    <2>3. 1 <= Len(content[f]) => content[f][1] \in BlocksOf(f)
      BY <1>2
    <2> QED BY <2>1, <2>2, <2>3 DEF f
  <1>9. Key(s) = f[1]
    BY <1>5, <1>8, BlockTells
  <1>10. s = asked[p]
    BY <1>2, <1>3, <1>9 DEF OnlyOne
  <1> QED BY <1>10

-----------------------------------------------------------------------------
(***************************************************************************)
(* The steps.                                                              *)
(***************************************************************************)
Proper == "oneFunction" \notin Tolerated

LEMMA CreateStep ==
  ASSUME IInv, Proper, NEW p \in Process, NEW s \in Skeleton,
         NEW l \in BOOLEAN, NEW v \in BOOLEAN, Create(p, s, l, v)
  PROVE  IInv'
  <1> USE DEF IInv
  <1>1. 0 \in Device /\ 0 \in 0 .. NumDevices
    BY NumDevicesAssumption DEF Device
  <1>2. TypeOK'
    BY <1>1 DEF TypeOK, Create, PC
  <1>3. OnlyOne(s)
    BY DEF Create, Meets, Proper, OnlyOne
  <1>4. Distinct'
    BY <1>3 DEF Distinct, Create, OnlyOne, TypeOK
  <1>5. NoPrograms = FirstPrograms(s, 0)
    BY DEF NoPrograms, FirstPrograms
  <1>6. ProgramsOK'
    BY <1>5 DEF ProgramsOK, Create, TypeOK
  <1> QED BY <1>2, <1>4, <1>6

LEMMA OpenBinaryStep ==
  ASSUME IInv, NEW p \in Process, OpenBinary(p)
  PROVE  IInv'
  <1> USE DEF IInv
  <1>1. device[p] \in Device
    BY DEF TypeOK, OpenBinary
  <1>2. Len(content[File(p)]) \in Nat
    BY <1>1, FileType
  <1>3. TypeOK'
    BY <1>1, <1>2 DEF TypeOK, OpenBinary, PC, files
  <1>4. Distinct'
    BY DEF Distinct, OpenBinary, OnlyOne, TypeOK
  <1>5. ProgramsOK'
    BY DEF ProgramsOK, OpenBinary, TypeOK
  <1> QED BY <1>3, <1>4, <1>5

\* One more program, loaded for the device the loop is at.
LEMMA OneMore ==
  ASSUME NEW s, NEW d \in Nat, NEW binary, binary = Compiled(s, d)
  PROVE  [e \in 0 .. d |-> IF e = d THEN binary ELSE FirstPrograms(s, d)[e]]
           = FirstPrograms(s, d + 1)
  BY DEF FirstPrograms

LEMMA ReadBinaryStep ==
  ASSUME IInv, NEW p \in Process, ReadBinary(p)
  PROVE  IInv'
  <1> USE DEF IInv
  <1> DEFINE d == device[p]
  <1>1. d \in Device /\ d + 1 \in 0 .. NumDevices /\ d \in Nat
    BY NumDevicesAssumption DEF TypeOK, ReadBinary, Device
  <1>2. d + 1 # NumDevices => d + 1 \in Device
    BY <1>1, NumDevicesAssumption DEF Device
  <1>3. TypeOK'
    BY <1>1, <1>2 DEF TypeOK, ReadBinary, PC, files, LastDevice
  <1>4. Distinct'
    BY DEF Distinct, ReadBinary, OnlyOne, TypeOK
  <1>5. CASE \E s \in Skeleton : Binary(p) = Compiled(s, d)
    <2>1. Binary(p) = Compiled(asked[p], d)
      BY <1>5, AcceptedIsAsked DEF ReadBinary
    <2>2. programs[p] = FirstPrograms(asked[p], d)
      BY DEF ProgramsOK, ReadBinary
    <2>3. [e \in 0 .. d |-> IF e = d THEN Binary(p) ELSE programs[p][e]]
            = FirstPrograms(asked[p], d + 1)
      BY <1>1, <2>1, <2>2, OneMore
    <2>4. programs' = [programs EXCEPT ![p] = FirstPrograms(asked[p], d + 1)]
      <3>1. programs' = [programs EXCEPT ![p] =
               [e \in 0 .. d |-> IF e = d THEN Binary(p) ELSE programs[p][e]]]
        BY <1>5 DEF ReadBinary
      <3> QED BY <2>3, <3>1
    <2>5. FirstPrograms(asked[p], NumDevices) = AllPrograms(asked[p])
      BY DEF FirstPrograms, AllPrograms, Device
    <2>6. /\ device' = [device EXCEPT ![p] = d + 1] /\ asked' = asked
          /\ pc' = [pc EXCEPT ![p] = IF d + 1 = NumDevices THEN "build" ELSE "open"]
      BY <1>5 DEF ReadBinary, LastDevice
    <2>7. DOMAIN programs = Process
      BY DEF TypeOK
    <2> HIDE DEF d
    <2>8. ProgramsOK'
      BY <2>4, <2>5, <2>6, <2>7 DEF ProgramsOK, TypeOK
    <2> QED BY <1>3, <1>4, <2>8
  <1>6. CASE ~ \E s \in Skeleton : Binary(p) = Compiled(s, d)
    <2>1. ProgramsOK'
      BY <1>6 DEF ProgramsOK, ReadBinary, TypeOK
    <2> QED BY <1>3, <1>4, <2>1
  <1> QED BY <1>5, <1>6

LEMMA BuildStep ==
  ASSUME IInv, NEW p \in Process, Build(p)
  PROVE  IInv'
  <1> USE DEF IInv
  <1>1. 0 \in Device /\ 0 \in 0 .. NumDevices
    BY NumDevicesAssumption DEF Device
  <1>2. TypeOK'
    BY <1>1 DEF TypeOK, Build, PC, files
  <1>3. Distinct'
    BY DEF Distinct, Build, OnlyOne, TypeOK
  <1>4. ProgramsOK'
    BY DEF ProgramsOK, Build, TypeOK, AllPrograms
  <1> QED BY <1>2, <1>3, <1>4

LEMMA OpenForSaveStep ==
  ASSUME IInv, NEW p \in Process, OpenForSave(p)
  PROVE  IInv'
  <1> USE DEF IInv
  <1>1. device[p] \in Device
    BY DEF TypeOK, OpenForSave
  <1>2. File(p) \in Filename
    BY <1>1, FileType
  <1>3. \A f : Missing \in Seq(BlocksOf(f))
    BY DEF Missing
  <1>4. TypeOK'
    BY <1>1, <1>2, <1>3, BlocksAssumption DEF TypeOK, OpenForSave, PC
  <1>5. Distinct'
    BY DEF Distinct, OpenForSave, OnlyOne, TypeOK
  <1>6. ProgramsOK'
    BY DEF ProgramsOK, OpenForSave, TypeOK
  <1> QED BY <1>4, <1>5, <1>6

\* The block that is written next.
LEMMA NextBlock ==
  ASSUME IInv, NEW p \in Process, pc[p] = "write"
  PROVE  /\ position[p] + 1 \in 1 .. Blocks
         /\ programs[p][device[p]][position[p] + 1]
              = Block(asked[p], device[p], position[p] + 1)
  <1>1. position[p] \in Nat /\ position[p] < Blocks /\ device[p] \in Device
    BY DEF IInv, TypeOK
  <1>2. programs[p] = AllPrograms(asked[p])
    BY DEF IInv, ProgramsOK
  <1>3. position[p] + 1 \in 1 .. Blocks
    BY <1>1, BlocksAssumption
  <1> QED BY <1>1, <1>2, <1>3 DEF AllPrograms, Compiled

LEMMA WriteBlockStep ==
  ASSUME IInv, NEW p \in Process, WriteBlock(p)
  PROVE  IInv'
  <1> USE DEF IInv
  <1> DEFINE f == File(p)
             k == position[p] + 1
             b == programs[p][device[p]][k]
  <1>1. device[p] \in Device /\ asked[p] \in Skeleton /\ pc[p] = "write"
    BY DEF TypeOK, WriteBlock
  <1>2. f \in Filename /\ f = BinaryFilename(asked[p], device[p])
        /\ content[f] \in Seq(BlocksOf(f))
    BY <1>1, FileType DEF File
  <1>3. k \in 1 .. Blocks /\ b = Block(asked[p], device[p], k)
    BY <1>1, NextBlock
  <1>4. b \in BlocksOf(f)
    BY <1>1, <1>2, <1>3, BlockOfFile
  <1>5. Hole \in BlocksOf(f)
    BY DEF BlocksOf
  <1>6. Written(content[f], k, b) \in Seq(BlocksOf(f))
    <2> HIDE DEF f, k, b
    <2> QED BY <1>2, <1>3, <1>4, <1>5, BlocksAssumption, WrittenType
  <1>7. content' = [content EXCEPT ![f] = Written(content[f], k, b)]
    BY DEF WriteBlock
  <1>8. \A g \in Filename : content'[g] \in Seq(BlocksOf(g))
    <2> HIDE DEF f, k, b
    <2> QED BY <1>2, <1>6, <1>7 DEF TypeOK
  <1>9. device[p] + 1 \in 0 .. NumDevices
        /\ (device[p] + 1 # NumDevices => device[p] + 1 \in Device)
    BY <1>1, NumDevicesAssumption DEF Device
  <1>10. TypeOK'
    <2>1. DOMAIN content' = Filename
      BY <1>7 DEF TypeOK
    <2>2. /\ device' \in [Process -> 0 .. NumDevices]
          /\ position' \in [Process -> Nat]
      <3>1. device' \in {device, [device EXCEPT ![p] = device[p] + 1]}
        BY DEF WriteBlock
      <3>2. position' = [position EXCEPT ![p] = k] /\ k \in Nat
        BY <1>3 DEF WriteBlock
      <3> HIDE DEF k
      <3> QED BY <1>9, <3>1, <3>2 DEF TypeOK
    <2>5. pc' \in [Process -> PC]
      BY DEF TypeOK, WriteBlock, PC
    <2>3. \A q \in Process : pc'[q] \in {"open", "read", "save", "write"}
                                => device'[q] \in Device
      BY <1>1, <1>9 DEF TypeOK, WriteBlock, LastDevice
    <2>4. \A q \in Process : pc'[q] = "write" => position'[q] < Blocks
      BY <1>1, <1>3 DEF TypeOK, WriteBlock
    <2> QED BY <1>8, <2>1, <2>2, <2>3, <2>4, <2>5 DEF TypeOK, WriteBlock
  <1>11. Distinct'
    BY DEF Distinct, WriteBlock, OnlyOne, TypeOK
  <1>12. ProgramsOK'
    BY DEF ProgramsOK, WriteBlock, TypeOK
  <1> QED BY <1>10, <1>11, <1>12

LEMMA StopStep ==
  ASSUME IInv, NEW p \in Process, Stop(p)
  PROVE  IInv'
  <1> USE DEF IInv
  <1>1. TypeOK'
    BY DEF TypeOK, Stop, PC, files
  <1>2. Distinct'
    BY DEF Distinct, Stop, OnlyOne, TypeOK
  <1>3. ProgramsOK'
    BY DEF ProgramsOK, Stop, TypeOK
  <1> QED BY <1>1, <1>2, <1>3

LEMMA NextStep ==
  ASSUME IInv, Proper, [Next]_vars
  PROVE  IInv'
  <1>1. CASE UNCHANGED vars
    BY <1>1 DEF IInv, TypeOK, ProgramsOK, Distinct, OnlyOne, vars
  <1>2. CASE Next
    <2>1. PICK p \in Process :
            \/ \E s \in Skeleton, l, v \in BOOLEAN : Create(p, s, l, v)
            \/ Work(p)
            \/ Stop(p)
      BY <1>2 DEF Next
    <2>2. CASE \E s \in Skeleton, l, v \in BOOLEAN : Create(p, s, l, v)
      BY <2>2, CreateStep
    <2>3. CASE Work(p)
      BY <2>3, OpenBinaryStep, ReadBinaryStep, BuildStep, OpenForSaveStep, WriteBlockStep
         DEF Work
    <2>4. CASE Stop(p)
      BY <2>4, StopStep
    <2> QED BY <2>1, <2>2, <2>3, <2>4
  <1> QED BY <1>1, <1>2

LEMMA InitInvariant == Init => IInv
  <1> SUFFICES ASSUME Init PROVE IInv
    OBVIOUS
  <1>1. TypeOK
    <2>1. \A f : Missing \in Seq(BlocksOf(f))
      BY DEF Missing
    <2>2. 0 \in 0 .. NumDevices
      BY NumDevicesAssumption
    <2> QED BY <2>1, <2>2 DEF Init, TypeOK, PC
  <1>2. ProgramsOK /\ Distinct
    BY DEF Init, ProgramsOK, Distinct
  <1> QED BY <1>1, <1>2 DEF IInv

(***************************************************************************)
(* Whoever loads or saves, and whoever is stopped, when ever: what runs is *)
(* what was asked for, as long as no two skeletons share a source.         *)
(***************************************************************************)
THEOREM CacheTypeCorrect == ASSUME Proper PROVE Spec => []TypeOK
  <1>1. IInv /\ [Next]_vars => IInv'
    BY NextStep
  <1>2. IInv => TypeOK
    BY DEF IInv
  <1> QED BY <1>1, <1>2, InitInvariant, PTL DEF Spec

(***************************************************************************)
(* The program that runs is the one that was asked for.                    *)
(***************************************************************************)
THEOREM CacheCorrect == ASSUME Proper PROVE Spec => []RunsWhatWasAsked
  <1>1. IInv /\ [Next]_vars => IInv'
    BY NextStep
  <1>2. IInv => RunsWhatWasAsked
    BY DEF IInv, ProgramsOK, RunsWhatWasAsked, AllPrograms
  <1> QED BY <1>1, <1>2, InitInvariant, PTL DEF Spec

-----------------------------------------------------------------------------
(***************************************************************************)
(* Whole files.  Each block of a file is right, or somebody who writes the *)
(* file is still to write it.                                              *)
(***************************************************************************)
Writing(p, f) == pc[p] = "write" /\ File(p) = f

Right(f, k) ==
  /\ k <= Len(content[f])
  /\ \E s \in Skeleton :
       Key(s) = f[1] /\ OnlyOne(s) /\ content[f][k] = Block(s, f[2], k)

ToCome(f, k) == \E p \in Process : Writing(p, f) /\ position[p] < k

WholeInv ==
  \A f \in exists :
    /\ Len(content[f]) <= Blocks
    /\ \A k \in 1 .. Blocks : Right(f, k) \/ ToCome(f, k)

LEMMA WholeFile ==
  ASSUME IInv, WholeInv, NEW f \in exists, ~ \E p \in Process : Writing(p, f)
  PROVE  \E s \in Skeleton : content[f] = Compiled(s, f[2])
  <1>1. \A k \in 1 .. Blocks : Right(f, k)
    BY DEF WholeInv, ToCome
  <1>2. 1 \in 1 .. Blocks /\ Blocks \in 1 .. Blocks
    BY BlocksAssumption
  <1>3. PICK s \in Skeleton : Key(s) = f[1] /\ OnlyOne(s)
    BY <1>1, <1>2 DEF Right
  <1>4. \A k \in 1 .. Blocks : content[f][k] = Block(s, f[2], k)
    BY <1>1, <1>3 DEF Right, OnlyOne
  <1>5. content[f] \in Seq(BlocksOf(f)) /\ Len(content[f]) = Blocks
    <2>1. content[f] \in Seq(BlocksOf(f))
      BY DEF IInv, TypeOK
    <2>2. Len(content[f]) \in Nat
      BY <2>1
    <2>3. Len(content[f]) <= Blocks /\ Blocks <= Len(content[f])
      BY <1>1, <1>2 DEF WholeInv, Right
    <2> QED BY <2>1, <2>2, <2>3, BlocksAssumption
  <1>6. content[f] = [k \in 1 .. Blocks |-> content[f][k]]
    BY <1>5
  <1>7. content[f] = Compiled(s, f[2])
    BY <1>4, <1>6 DEF Compiled
  <1> QED BY <1>7

LEMMA WholeFiles == IInv /\ WholeInv => FilesAreWhole
  BY WholeFile DEF FilesAreWhole, Writing

\* A step of a process that does not write, before or after.
LEMMA OtherStep ==
  ASSUME IInv, WholeInv, NEW p \in Process, files' = files,
         pc[p] # "write",
         \A q \in Process \ {p} : /\ pc'[q] = pc[q] /\ position'[q] = position[q]
                                  /\ asked'[q] = asked[q] /\ device'[q] = device[q]
  PROVE  WholeInv'
  <1>1. exists' = exists /\ content' = content
    BY DEF files
  <1> SUFFICES ASSUME NEW f \in exists, NEW k \in 1 .. Blocks
               PROVE  Right(f, k)' \/ ToCome(f, k)'
    BY <1>1 DEF WholeInv
  <1>2. CASE Right(f, k)
    BY <1>1, <1>2 DEF Right
  <1>3. CASE ToCome(f, k)
    <2>1. PICK q \in Process : Writing(q, f) /\ position[q] < k
      BY <1>3 DEF ToCome
    <2>2. q # p
      BY <2>1 DEF Writing
    <2>3. Writing(q, f)' /\ position'[q] < k
      BY <2>1, <2>2 DEF Writing, File
    <2> QED BY <2>3 DEF ToCome
  <1> QED BY <1>2, <1>3 DEF WholeInv

LEMMA OpenForSaveWhole ==
  ASSUME IInv, WholeInv, NEW p \in Process, OpenForSave(p)
  PROVE  WholeInv'
  <1> DEFINE g == File(p)
  <1>1. g \in Filename
    <2>1. device[p] \in Device
      BY DEF IInv, TypeOK, OpenForSave
    <2> QED BY <2>1, FileType DEF IInv
  <1>2. /\ exists' = exists \cup {g}
        /\ content' = [content EXCEPT ![g] = Missing]
        /\ g' = g /\ pc'[p] = "write" /\ position'[p] = 0
    BY DEF OpenForSave, IInv, TypeOK, File
  <1>3. \A q \in Process \ {p} : /\ pc'[q] = pc[q] /\ position'[q] = position[q]
                                 /\ File(q)' = File(q)
    BY DEF OpenForSave, IInv, TypeOK, File
  <1>4. pc[p] # "write"
    BY DEF OpenForSave
  <1>5. DOMAIN content = Filename /\ exists \subseteq Filename
    BY DEF IInv, TypeOK
  <1> HIDE DEF g
  <1> SUFFICES ASSUME NEW f \in exists'
               PROVE  (/\ Len(content[f]) <= Blocks
                       /\ \A k \in 1 .. Blocks : Right(f, k) \/ ToCome(f, k))'
    BY DEF WholeInv
  <1>6. CASE f = g
    <2>1. Writing(p, f)'
      BY <1>2, <1>6 DEF Writing, g
    <2>2. \A k \in 1 .. Blocks : position'[p] < k
      BY <1>2
    <2>3. Len(content'[f]) = 0
      BY <1>1, <1>2, <1>5, <1>6 DEF Missing
    <2> QED BY <2>1, <2>2, <2>3, BlocksAssumption DEF ToCome
  <1>7. CASE f # g
    <2>1. f \in exists /\ content'[f] = content[f]
      BY <1>2, <1>5, <1>7
    <2>2. \A k \in 1 .. Blocks : Right(f, k) => Right(f, k)'
      BY <2>1 DEF Right
    <2>3. \A k \in 1 .. Blocks : ToCome(f, k) => ToCome(f, k)'
      BY <1>3, <1>4 DEF ToCome, Writing
    <2> QED BY <2>1, <2>2, <2>3 DEF WholeInv
  <1> QED BY <1>6, <1>7

\* What writing block b at position k leaves of a file, and what it adds.
LEMMA WrittenBlock ==
  ASSUME NEW S, Hole \in S, NEW blocks \in Seq(S), NEW k \in Nat \ {0}, NEW b \in S
  PROVE  /\ k <= Len(Written(blocks, k, b)) /\ Written(blocks, k, b)[k] = b
         /\ Len(blocks) <= Len(Written(blocks, k, b))
         /\ Len(Written(blocks, k, b)) = k \/ Len(Written(blocks, k, b)) = Len(blocks)
         /\ \A j \in 1 .. Len(blocks) : j # k => Written(blocks, k, b)[j] = blocks[j]
  BY DEF Written

LEMMA WriteBlockWhole ==
  ASSUME IInv, WholeInv, NEW p \in Process, WriteBlock(p)
  PROVE  WholeInv'
  <1> DEFINE g == File(p)
             n == position[p] + 1
             b == programs[p][device[p]][n]
             w == Written(content[g], n, b)
  <1>1. device[p] \in Device /\ asked[p] \in Skeleton /\ pc[p] = "write"
    BY DEF IInv, TypeOK, WriteBlock
  <1>2. /\ g \in Filename /\ g = BinaryFilename(asked[p], device[p])
        /\ g[1] = Key(asked[p]) /\ g[2] = device[p]
        /\ content[g] \in Seq(BlocksOf(g))
    BY <1>1, FileType DEF IInv, File
  <1>3. n \in 1 .. Blocks /\ b = Block(asked[p], device[p], n)
    BY <1>1, NextBlock
  <1>4. b \in BlocksOf(g) /\ Hole \in BlocksOf(g)
    BY <1>1, <1>2, <1>3, BlockOfFile DEF BlocksOf
  <1>5. OnlyOne(asked[p])
    BY <1>1 DEF IInv, Distinct
  <1>6. /\ exists' = exists /\ asked' = asked
        /\ content' = [content EXCEPT ![g] = w]
        /\ position' = [position EXCEPT ![p] = n]
        /\ n < Blocks => pc' = pc /\ device' = device
    BY DEF WriteBlock
  <1>7. \A q \in Process \ {p} : /\ pc'[q] = pc[q] /\ position'[q] = position[q]
                                 /\ File(q)' = File(q)
    BY DEF WriteBlock, IInv, TypeOK, File
  <1>8. DOMAIN content = Filename /\ exists \subseteq Filename /\ position[p] \in Nat
        /\ position \in [Process -> Nat]
    BY DEF IInv, TypeOK
  <1>9. /\ n <= Len(w) /\ w[n] = b /\ Len(content[g]) <= Len(w)
        /\ Len(w) = n \/ Len(w) = Len(content[g])
        /\ \A j \in 1 .. Len(content[g]) : j # n => w[j] = content[g][j]
    <2> DEFINE T == BlocksOf(g)
               old == content[g]
    <2>1. n \in Nat \ {0} /\ old \in Seq(T) /\ b \in T /\ Hole \in T
      BY <1>2, <1>4, <1>8
    <2> HIDE DEF g, n, b, T, old, w
    <2>2. \A S : Hole \in S =>
            \A blocks \in Seq(S), k \in Nat \ {0}, x \in S :
              /\ k <= Len(Written(blocks, k, x)) /\ Written(blocks, k, x)[k] = x
              /\ Len(blocks) <= Len(Written(blocks, k, x))
              /\ \/ Len(Written(blocks, k, x)) = k
                 \/ Len(Written(blocks, k, x)) = Len(blocks)
              /\ \A j \in 1 .. Len(blocks) : j # k => Written(blocks, k, x)[j] = blocks[j]
      BY WrittenBlock
    <2>3. /\ n <= Len(Written(old, n, b)) /\ Written(old, n, b)[n] = b
          /\ Len(old) <= Len(Written(old, n, b))
          /\ Len(Written(old, n, b)) = n \/ Len(Written(old, n, b)) = Len(old)
          /\ \A j \in 1 .. Len(old) : j # n => Written(old, n, b)[j] = old[j]
      BY <2>1, <2>2
    <2> QED BY <2>3 DEF w, old
  <1>10. content'[g] = w /\ \A f \in Filename \ {g} : content'[f] = content[f]
    BY <1>2, <1>6, <1>8
  <1> SUFFICES ASSUME NEW f \in exists'
               PROVE  (/\ Len(content[f]) <= Blocks
                       /\ \A k \in 1 .. Blocks : Right(f, k) \/ ToCome(f, k))'
    BY DEF WholeInv
  <1>11. f \in exists /\ f \in Filename
    BY <1>6, <1>8
  <1>12. Len(content[f]) <= Blocks /\ \A k \in 1 .. Blocks : Right(f, k) \/ ToCome(f, k)
    BY <1>11 DEF WholeInv
  <1>13. CASE f # g
    <2>1. content'[f] = content[f]
      BY <1>10, <1>11, <1>13
    <2>2. \A k \in 1 .. Blocks : Right(f, k) => Right(f, k)'
      BY <2>1 DEF Right
    <2>3. \A k \in 1 .. Blocks : ToCome(f, k) => ToCome(f, k)'
      BY <1>7, <1>13 DEF ToCome, Writing
    <2> QED BY <1>12, <2>1, <2>2, <2>3
  <1>14. CASE f = g
    <2>1. content'[f] = w /\ Len(content[f]) \in Nat
      BY <1>2, <1>10, <1>14
    <2>2. Len(content'[f]) <= Blocks
      BY <1>3, <1>9, <1>12, <1>14, <2>1
    <2> SUFFICES ASSUME NEW k \in 1 .. Blocks PROVE Right(f, k)' \/ ToCome(f, k)'
      BY <2>2
    <2>3. CASE k = n
      <3>1. content'[f][k] = Block(asked[p], f[2], k) /\ k <= Len(content'[f])
        BY <1>2, <1>3, <1>9, <1>14, <2>1, <2>3
      <3>2. Key(asked[p]) = f[1]
        BY <1>2, <1>14
      <3> QED BY <1>1, <1>5, <3>1, <3>2 DEF Right, OnlyOne
    <2>4. CASE k # n /\ Right(f, k)
      <3>1. k <= Len(content[f])
        BY <2>4 DEF Right
      <3>2. content'[f][k] = content[f][k]
        BY <1>9, <1>14, <2>1, <2>4, <3>1
      <3>3. k <= Len(content'[f])
        <4>1. Len(content[f]) <= Len(content'[f]) /\ Len(content'[f]) \in Nat
          BY <1>3, <1>9, <1>14, <2>1
        <4> QED BY <2>1, <3>1, <4>1
      <3> QED BY <2>4, <3>2, <3>3 DEF Right, OnlyOne
    <2>5. CASE k # n /\ ToCome(f, k)
      <3>1. PICK q \in Process : Writing(q, f) /\ position[q] < k
        BY <2>5 DEF ToCome
      <3>2. CASE q = p
        <4>1. n < k /\ n < Blocks
          BY <1>3, <1>8, <2>5, <3>1, <3>2, BlocksAssumption
        <4>2. pc'[p] = "write" /\ File(p)' = g /\ position'[p] = n
          BY <1>1, <1>6, <1>8, <4>1 DEF File
        <4> QED BY <1>14, <4>1, <4>2 DEF ToCome, Writing
      <3>3. CASE q # p
        BY <1>7, <3>1, <3>3 DEF ToCome, Writing
      <3> QED BY <3>2, <3>3
    <2> QED BY <1>12, <2>3, <2>4, <2>5
  <1> QED BY <1>13, <1>14

LEMMA WholeStep ==
  ASSUME IInv, WholeInv, Proper, "finished" \notin Tolerated, [Next]_vars
  PROVE  WholeInv'
  <1>1. CASE UNCHANGED vars
    BY <1>1 DEF WholeInv, Right, ToCome, Writing, File, vars
  <1>2. CASE Next
    <2>1. PICK p \in Process :
            \/ \E s \in Skeleton, l, v \in BOOLEAN : Create(p, s, l, v)
            \/ Work(p)
            \/ Stop(p)
      BY <1>2 DEF Next
    <2>2. CASE WriteBlock(p)
      BY <2>2, WriteBlockWhole
    <2>3. CASE OpenForSave(p)
      BY <2>3, OpenForSaveWhole
    <2>4. CASE \E s \in Skeleton, l, v \in BOOLEAN : Create(p, s, l, v)
      BY <2>4, OtherStep DEF Create, files, IInv, TypeOK
    <2>5. CASE OpenBinary(p)
      BY <2>5, OtherStep DEF OpenBinary, files, IInv, TypeOK
    <2>6. CASE ReadBinary(p)
      BY <2>6, OtherStep DEF ReadBinary, files, IInv, TypeOK
    <2>7. CASE Build(p)
      BY <2>7, OtherStep DEF Build, files, IInv, TypeOK
    <2>8. CASE Stop(p)
      BY <2>8, OtherStep DEF Stop, Meets, files, IInv, TypeOK
    <2> QED BY <2>1, <2>2, <2>3, <2>4, <2>5, <2>6, <2>7, <2>8 DEF Work
  <1> QED BY <1>1, <1>2

(***************************************************************************)
(* However the processes that save a file overlap, it is whole when the    *)
(* last of them has closed it; unless one of them is stopped while it      *)
(* writes.                                                                 *)
(***************************************************************************)
THEOREM CacheFilesWhole ==
  ASSUME Proper, "finished" \notin Tolerated
  PROVE  Spec => []FilesAreWhole
  <1>1. Init => IInv /\ WholeInv
    BY InitInvariant DEF Init, WholeInv
  <1>2. IInv /\ WholeInv /\ [Next]_vars => (IInv /\ WholeInv)'
    BY NextStep, WholeStep
  <1> QED BY <1>1, <1>2, WholeFiles, PTL DEF Spec

-----------------------------------------------------------------------------
(***************************************************************************)
(* Nobody aborts.  While a file is being read nobody can write it, so the  *)
(* size that was taken stays right and the file whole.                     *)
(***************************************************************************)
Separate ==
  \A p, q \in Process :
    p # q /\ Busy(p) /\ Busy(q) /\ Key(asked[p]) = Key(asked[q])
      => ~ (load[p] /\ save[q])

Modes ==
  \A p \in Process : /\ pc[p] \in {"open", "read"} => load[p]
                     /\ pc[p] \in {"save", "write"} => save[p]

SizeKnown ==
  \A p \in Process : pc[p] = "read" =>
    File(p) \in exists /\ position[p] = Len(content[File(p)])

Careful == Tolerated = {}

AInv == IInv /\ WholeInv /\ Separate /\ Modes /\ SizeKnown /\ NobodyAborts

LEMMA NobodyWrites ==
  ASSUME AInv, NEW p \in Process, pc[p] = "read", NEW q \in Process,
         pc[q] \in {"save", "write"}
  PROVE  File(p) # File(q)
  <1>1. p # q /\ Busy(p) /\ Busy(q) /\ load[p] /\ save[q]
    BY DEF AInv, Modes, Busy
  <1>2. Key(asked[p]) # Key(asked[q])
    BY <1>1 DEF AInv, Separate
  <1> QED BY <1>2 DEF File, BinaryFilename

LEMMA NobodyAbortsReading ==
  ASSUME AInv, NEW p \in Process, ReadBinary(p)
  PROVE  \E s \in Skeleton : Binary(p) = Compiled(s, device[p])
  <1>1. pc[p] = "read" /\ device[p] \in Device
    BY DEF ReadBinary, AInv, IInv, TypeOK
  <1>2. File(p) \in exists /\ position[p] = Len(content[File(p)])
        /\ content[File(p)] \in Seq(BlocksOf(File(p))) /\ File(p)[2] = device[p]
    BY <1>1, FileType DEF AInv, SizeKnown, IInv
  <1>3. ~ \E q \in Process : Writing(q, File(p))
    BY <1>1, NobodyWrites DEF Writing
  <1>4. \E s \in Skeleton : content[File(p)] = Compiled(s, device[p])
    BY <1>2, <1>3, WholeFile DEF AInv
  <1>5. Binary(p) = content[File(p)]
    BY <1>2 DEF Binary
  <1> QED BY <1>4, <1>5

\* Nobody else's step changes what a reading process has found out.
LEMMA SizeStays ==
  ASSUME AInv, NEW p \in Process, pc'[p] = "read" => pc[p] # "read",
         pc'[p] = "read" => File(p)' \in exists' /\ position'[p] = Len(content'[File(p)']),
         exists \subseteq exists', NEW f \in Filename,
         content' = content \/ (pc[p] \in {"save", "write"} /\ f = File(p)
                                 /\ \A g \in Filename \ {f} : content'[g] = content[g]),
         \A q \in Process \ {p} : pc'[q] = pc[q] /\ position'[q] = position[q]
                                  /\ File(q)' = File(q)
  PROVE  SizeKnown'
  <1> SUFFICES ASSUME NEW q \in Process, pc'[q] = "read"
               PROVE  File(q)' \in exists' /\ position'[q] = Len(content'[File(q)'])
    BY DEF SizeKnown
  <1>1. CASE q = p
    BY <1>1
  <1>2. CASE q # p
    <2>1. pc[q] = "read" /\ File(q) \in exists /\ position[q] = Len(content[File(q)])
      BY <1>2 DEF AInv, SizeKnown
    <2>2. File(q) \in Filename
      BY <2>1 DEF AInv, IInv, TypeOK
    <2>3. content'[File(q)] = content[File(q)]
      BY <2>1, <2>2, NobodyWrites
    <2> QED BY <1>2, <2>1, <2>3
  <1> QED BY <1>1, <1>2

LEMMA SeparateStep ==
  ASSUME AInv, Careful, [Next]_vars
  PROVE  Separate' /\ Modes'
  <1> USE DEF AInv, IInv, TypeOK, Separate, Modes, Busy
  <1>1. CASE UNCHANGED vars
    BY <1>1 DEF vars
  <1>2. CASE Next
    <2>1. PICK p \in Process :
            \/ \E s \in Skeleton, l, v \in BOOLEAN : Create(p, s, l, v)
            \/ Work(p)
            \/ Stop(p)
      BY <1>2 DEF Next
    <2>2. CASE \E s \in Skeleton, l, v \in BOOLEAN : Create(p, s, l, v)
      <3>1. PICK s \in Skeleton, l \in BOOLEAN, v \in BOOLEAN : Create(p, s, l, v)
        BY <2>2
      <3>2. Apart(p, s, l, v)
        BY <3>1 DEF Create, Meets, Careful
      <3>3. /\ load' = [load EXCEPT ![p] = l] /\ save' = [save EXCEPT ![p] = v]
            /\ asked' = [asked EXCEPT ![p] = s]
            /\ pc' = [pc EXCEPT ![p] = IF l THEN "open" ELSE "build"]
        BY <3>1 DEF Create
      <3>4. Modes'
        BY <3>3
      <3>5. Separate'
        BY <3>2, <3>3 DEF Apart
      <3> QED BY <3>4, <3>5
    <2>3. CASE OpenBinary(p)
      BY <2>3 DEF OpenBinary
    <2>4. CASE ReadBinary(p)
      BY <2>4 DEF ReadBinary
    <2>5. CASE Build(p)
      <3>1. /\ pc' = [pc EXCEPT ![p] = pc'[p]]
            /\ pc[p] = "build" /\ pc'[p] \in {"save", "ready"}
            /\ pc'[p] = "save" => save[p]
        BY <2>5 DEF Build
      <3>2. load' = load /\ save' = save /\ asked' = asked
        BY <2>5 DEF Build
      <3> QED BY <3>1, <3>2
    <2>6. CASE OpenForSave(p)
      BY <2>6 DEF OpenForSave
    <2>7. CASE WriteBlock(p)
      BY <2>7 DEF WriteBlock
    <2>8. CASE Stop(p)
      BY <2>8 DEF Stop
    <2> QED BY <2>1, <2>2, <2>3, <2>4, <2>5, <2>6, <2>7, <2>8 DEF Work
  <1> QED BY <1>1, <1>2

LEMMA SizeStep ==
  ASSUME AInv, [Next]_vars
  PROVE  SizeKnown'
  <1>1. CASE UNCHANGED vars
    BY <1>1 DEF AInv, SizeKnown, File, vars
  <1>2. CASE Next
    <2>1. PICK p \in Process :
            \/ \E s \in Skeleton, l, v \in BOOLEAN : Create(p, s, l, v)
            \/ Work(p)
            \/ Stop(p)
      BY <1>2 DEF Next
    <2>2. PICK f \in Filename : device[p] \in Device => f = File(p)
      <3>1. BinaryFilename(asked[p], 0) \in Filename
        <4>1. asked[p] \in Skeleton /\ 0 \in Device
          BY NumDevicesAssumption DEF Device, AInv, IInv, TypeOK
        <4> QED BY <4>1 DEF Filename
      <3>2. CASE device[p] \in Device
        <4>1. File(p) \in Filename
          BY <3>2, FileType DEF AInv, IInv
        <4> QED BY <4>1
      <3>3. CASE device[p] \notin Device
        BY <3>1, <3>3
      <3> QED BY <3>2, <3>3
    <2> USE DEF AInv, IInv, TypeOK
    <2>3. CASE \E s \in Skeleton, l, v \in BOOLEAN : Create(p, s, l, v)
      BY <2>3, SizeStays DEF Create, File
    <2>4. CASE OpenBinary(p)
      <3>1. pc'[p] = "read" =>
              File(p)' \in exists' /\ position'[p] = Len(content'[File(p)'])
        BY <2>4 DEF OpenBinary, File, files
      <3>2. content' = content /\ exists' = exists /\ pc[p] # "read"
        BY <2>4 DEF OpenBinary, files
      <3>3. \A q \in Process \ {p} : /\ pc'[q] = pc[q] /\ position'[q] = position[q]
                                     /\ File(q)' = File(q)
        BY <2>4 DEF OpenBinary, File
      <3> QED BY <3>1, <3>2, <3>3, SizeStays
    <2>5. CASE ReadBinary(p)
      BY <2>5, SizeStays DEF ReadBinary, File, files
    <2>6. CASE Build(p)
      BY <2>6, SizeStays DEF Build, File, files
    <2>7. CASE OpenForSave(p)
      <3>1. f = File(p)
        BY <2>2, <2>7 DEF OpenForSave
      <3>2. \A g \in Filename \ {f} : content'[g] = content[g]
        BY <2>7, <3>1 DEF OpenForSave
      <3>3. \A q \in Process \ {p} : /\ pc'[q] = pc[q] /\ position'[q] = position[q]
                                     /\ File(q)' = File(q)
        BY <2>7 DEF OpenForSave, File
      <3> QED BY <2>7, <3>1, <3>2, <3>3, SizeStays DEF OpenForSave
    <2>8. CASE WriteBlock(p)
      <3>1. f = File(p)
        BY <2>2, <2>8 DEF WriteBlock
      <3>2. \A g \in Filename \ {f} : content'[g] = content[g]
        BY <2>8, <3>1 DEF WriteBlock
      <3>3. \A q \in Process \ {p} : /\ pc'[q] = pc[q] /\ position'[q] = position[q]
                                     /\ File(q)' = File(q)
        BY <2>8 DEF WriteBlock, File
      <3>4. pc[p] = "write" /\ pc'[p] # "read" /\ exists' = exists
        BY <2>8 DEF WriteBlock
      <3> QED BY <3>1, <3>2, <3>3, <3>4, SizeStays
    <2>9. CASE Stop(p)
      BY <2>9, SizeStays DEF Stop, File, files
    <2> QED BY <2>1, <2>3, <2>4, <2>5, <2>6, <2>7, <2>8, <2>9 DEF Work
  <1> QED BY <1>1, <1>2

LEMMA AbortStep ==
  ASSUME AInv, [Next]_vars
  PROVE  NobodyAborts'
  <1> USE DEF NobodyAborts
  <1>1. CASE UNCHANGED vars
    BY <1>1 DEF AInv, vars
  <1>2. CASE Next
    <2>1. PICK p \in Process :
            \/ \E s \in Skeleton, l, v \in BOOLEAN : Create(p, s, l, v)
            \/ Work(p)
            \/ Stop(p)
      BY <1>2 DEF Next
    <2> USE DEF AInv, IInv, TypeOK
    <2>2. CASE ReadBinary(p)
      BY <2>2, NobodyAbortsReading DEF ReadBinary
    <2>3. CASE ~ ReadBinary(p)
      BY <2>1, <2>3 DEF Work, Create, OpenBinary, Build, OpenForSave, WriteBlock, Stop
    <2> QED BY <2>2, <2>3
  <1> QED BY <1>1, <1>2

(***************************************************************************)
(* Processes that load are apart from processes that save, none is stopped *)
(* while it writes, and no two skeletons share a source: then the cache    *)
(* ends no process.                                                        *)
(***************************************************************************)
THEOREM CacheIsHarmless == ASSUME Careful PROVE Spec => []NobodyAborts
  <1>1. Proper /\ "finished" \notin Tolerated
    BY DEF Careful, Proper
  <1>2. Init => AInv
    <2>1. Init => WholeInv /\ Separate /\ Modes /\ SizeKnown /\ NobodyAborts
      BY DEF Init, WholeInv, Separate, Modes, SizeKnown, NobodyAborts, Busy
    <2> QED BY <2>1, InitInvariant DEF AInv
  <1>3. AInv /\ [Next]_vars => AInv'
    <2> SUFFICES ASSUME AInv, [Next]_vars PROVE AInv'
      OBVIOUS
    <2>1. IInv' /\ WholeInv'
      BY <1>1, NextStep, WholeStep DEF AInv
    <2> QED BY <2>1, SeparateStep, SizeStep, AbortStep DEF AInv
  <1>4. AInv => NobodyAborts
    BY DEF AInv
  <1> QED BY <1>2, <1>3, <1>4, PTL DEF Spec
=============================================================================
