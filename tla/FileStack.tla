------------------------------ MODULE FileStack ------------------------------
(***************************************************************************)
(* The SD card store of components/stack_utils.c, byte by byte.            *)
(*                                                                         *)
(* The file is the marker '#' followed by records of MSG_SIZE bytes.  There *)
(* is no length field anywhere: the top of the stack is the last nonzero   *)
(* byte of the file (a record ends in its nonzero `fields' byte), a popped *)
(* record is overwritten with zeros and the file never shrinks.  The depth *)
(* is a counter in RAM that stack_init recomputes from the file.           *)
(*                                                                         *)
(* A file position p is the number of bytes before it, as in fseek, and    *)
(* byte i (from 1) of the file is file[i], so "position after byte i" is i.*)
(* The C library is used as POSIX defines it: an fseek to before the start *)
(* fails and leaves the position alone, a write past the end extends.      *)
(***************************************************************************)
EXTENDS Sequences, Integers

CONSTANTS MSG_SIZE,    \* sizeof(elm327_data_t): 54 in the code
          Byte,        \* the values of a record's data bytes; may hold 0
          FieldsByte,  \* the values of its last byte, `fields': never 0
          Hash,        \* '#'
          MaxRecords,  \* bound: a push happens below this many records
          MaxBoots     \* bound: how often the device is switched on

ASSUME ParametersAssumption ==
  /\ MSG_SIZE \in Nat /\ MSG_SIZE > 1
  /\ Byte \subseteq Nat /\ FieldsByte \subseteq Nat \ {0}
  /\ Hash \in Nat \ {0}
  /\ MaxRecords \in Nat /\ MaxBoots \in Nat

VARIABLES present,  \* does /sdcard/stack exist
          file,     \* its bytes
          depth,    \* fStack_depth
          pc,       \* "off", "create" (in stack_init), "up" or "hung"
          popped,   \* what the last fStack_pop read
          boots     \* how often the device was switched on

vars == <<present, file, depth, pc, popped, boots>>

Record == {r \in [1..MSG_SIZE -> Byte \cup FieldsByte] :
             /\ \A i \in 1..(MSG_SIZE - 1) : r[i] \in Byte
             /\ r[MSG_SIZE] \in FieldsByte}

\* mutant: the zeros written by a pop spare the `fields' byte
BlankShort == [i \in 1..(MSG_SIZE - 1) |-> 0]

\* The zeros a pop writes over its record.
Blank == [i \in 1..MSG_SIZE |-> 0]
-----------------------------------------------------------------------------
(* Reading and writing the file.                                           *)

AllZero(f) == \A i \in DOMAIN f : f[i] = 0

\* fStackFindTop: the position after the last nonzero byte.
Top(f) == CHOOSE i \in DOMAIN f : /\ f[i] # 0
                                  /\ \A j \in DOMAIN f : j > i => f[j] = 0

\* mutant: the write starts on the last nonzero byte, not after it
OverwriteEarly(f, p, s) ==
  [i \in 1..(IF p - 1 + Len(s) > Len(f) THEN p - 1 + Len(s) ELSE Len(f)) |->
     IF p - 1 < i /\ i <= p - 1 + Len(s) THEN s[i - p + 1] ELSE f[i]]

\* fwrite(s) at position p; also where the call before it was a read that ended
\* there, and C asks for an fseek in between (stack_utils.c:48-49, 101-102)
Overwrite(f, p, s) ==
  [i \in 1..(IF p + Len(s) > Len(f) THEN p + Len(s) ELSE Len(f)) |->
     IF p < i /\ i <= p + Len(s) THEN s[i - p] ELSE f[i]]

\* mutant: one byte too few
SeekBackShort(p) == IF p >= MSG_SIZE - 1 THEN p - (MSG_SIZE - 1) ELSE p

\* fseek(-MSG_SIZE, SEEK_CUR) from position p
SeekBack(p) == IF p >= MSG_SIZE THEN p - MSG_SIZE ELSE p

\* fread(MSG_SIZE) at position p: short at the end of the file
ReadAt(f, p) ==
  SubSeq(f, p + 1, IF p + MSG_SIZE > Len(f) THEN Len(f) ELSE p + MSG_SIZE)

\* The nearest '#' at or below byte t, where a count of bytes stops.
MarkerBelow(f, t) ==
  CHOOSE i \in 1..t : f[i] = Hash /\ \A j \in 1..t : j > i => f[j] # Hash

HasMarkerBelow(f, t) == \E i \in 1..t : f[i] = Hash
-----------------------------------------------------------------------------
(* fStackFindDepth: the depth from the bytes of the file, and its repair.  *)
(* The first count goes down from the end of the file, popped records      *)
(* included; a remainder is taken for a broken message.                    *)

\* mutant: the count starts one byte late
CountedBytesLate(f) == Len(f) - 1 - MarkerBelow(f, Len(f))

CountedBytes(f) == Len(f) - MarkerBelow(f, Len(f))

Remainder(f) == CountedBytes(f) % MSG_SIZE

Broken(f) == Remainder(f) # 0

\* The repair writes a zero after the top and then zeros downwards, one
\* byte more than the remainder.
ZeroedFrom(f) == Top(f) - Remainder(f)

Repaired(f) ==
  [i \in 1..(IF Top(f) + 1 > Len(f) THEN Top(f) + 1 ELSE Len(f)) |->
     IF ZeroedFrom(f) <= i /\ i <= Top(f) + 1 THEN 0 ELSE f[i]]

\* The second count goes down from the byte after the top.
RecountedBytes(f) == Top(f) + 1 - MarkerBelow(f, Top(f))

\* The loops of fStackFindTop and fStackFindDepth end only if they meet a
\* nonzero byte and a '#'.
ScanEnds(f) ==
  /\ HasMarkerBelow(f, Len(f))
  /\ Broken(f) => LET g == Repaired(f)
                  IN ~AllZero(g) /\ HasMarkerBelow(g, Top(g))

ScannedFile(f)  == IF Broken(f) THEN Repaired(f) ELSE f

\* mutant: the counter is not recomputed
ScannedDepthOmitted(f) == 0

ScannedDepth(f) ==
  (IF Broken(f) THEN RecountedBytes(Repaired(f)) ELSE CountedBytes(f))
     \div MSG_SIZE
-----------------------------------------------------------------------------
Init == /\ present = FALSE
        /\ file = <<>>
        /\ depth = 0
        /\ pc = "off"
        /\ popped = <<>>
        /\ boots = 0

\* stack_init finds no file: fopen(.., "w+") creates it empty ...  It would also
\* create a file of more than 2000000000 bytes anew, 37 million records; the files
\* of the model have at most MaxRecords.
CreateFile == /\ pc = "off" /\ ~present
              /\ boots < MaxBoots
              /\ present' = TRUE
              /\ file' = <<>>
              /\ pc' = "create"
              /\ boots' = boots + 1
              /\ UNCHANGED <<depth, popped>>

\* ... and the marker is on the card when it is closed.
WriteMarker == /\ pc = "create"
               /\ file' = <<Hash>>
               /\ depth' = 0
               /\ pc' = "up"
               /\ UNCHANGED <<present, popped, boots>>

\* stack_init finds the file of an earlier session and counts its records.
ScanFile == /\ pc = "off" /\ present
            /\ boots < MaxBoots
            /\ ScanEnds(file)
            /\ file' = ScannedFile(file)
            /\ depth' = ScannedDepth(file)
            /\ pc' = "up"
            /\ boots' = boots + 1
            /\ UNCHANGED <<present, popped>>

\* ... or never finishes counting; the zeros of a repair may be on the card.
ScanHangs == /\ pc = "off" /\ present
             /\ boots < MaxBoots
             /\ ~ScanEnds(file)
             /\ file' \in {file} \cup {ScannedFile(f) : f \in
                            {g \in {file} : HasMarkerBelow(g, Len(g))}}
             /\ pc' = "hung"
             /\ boots' = boots + 1
             /\ UNCHANGED <<present, depth, popped>>

\* How many records lie below the top.
StoredRecords == IF AllZero(file) THEN 0 ELSE (Top(file) - 1) \div MSG_SIZE

\* fStack_push
Push(r) == /\ pc = "up" /\ ~AllZero(file)
           /\ StoredRecords < MaxRecords
           /\ file' = Overwrite(file, Top(file), r)
           /\ depth' = depth + 1
           /\ UNCHANGED <<present, pc, popped, boots>>

\* mutant: off by one
NotEmptyOffByOne == depth >= 0

\* if(fStack_depth > 0)
NotEmpty == depth > 0

\* fStack_pop: seek back, read, seek back, write zeros.
Pop == /\ pc = "up" /\ ~AllZero(file)
       /\ NotEmpty
       /\ LET p == SeekBack(Top(file))
          IN /\ popped' = ReadAt(file, p)
             /\ file' = Overwrite(file, SeekBack(p + Len(ReadAt(file, p))), Blank)
       /\ depth' = depth - 1
       /\ UNCHANGED <<present, pc, boots>>

\* The depth is in RAM and zeroed by the next start.
PowerLoss == /\ pc # "off"
             /\ pc' = "off"
             /\ depth' = 0
             /\ UNCHANGED <<present, file, popped, boots>>

Next == \/ CreateFile \/ WriteMarker \/ ScanFile \/ ScanHangs
        \/ (\E r \in Record : Push(r))
        \/ Pop
        \/ PowerLoss

Spec == Init /\ [][Next]_vars
-----------------------------------------------------------------------------
(* What an interrupted write leaves behind.  fStackFindDepth is written to *)
(* repair a "Broken Message": a push of which only a prefix is on the card.*)

TornPush(r) == /\ pc = "up" /\ ~AllZero(file)
               /\ StoredRecords < MaxRecords
               /\ \E n \in 1..(MSG_SIZE - 1) :
                    file' = Overwrite(file, Top(file), SubSeq(r, 1, n))
               /\ pc' = "off"
               /\ depth' = 0
               /\ UNCHANGED <<present, popped, boots>>

\* fStackFindTop in a push or a pop never ends if the marker was wiped.
CallHangs == /\ pc = "up" /\ AllZero(file)
             /\ pc' = "hung"
             /\ UNCHANGED <<present, file, depth, popped, boots>>

TornNext == Next \/ (\E r \in Record : TornPush(r)) \/ CallHangs

TornSpec == Init /\ [][TornNext]_vars
-----------------------------------------------------------------------------
\* Every variable stays in its range; the depth in particular never goes below 0
\* (stack_utils.c:76), where the counter is compared as a number of messages.
TypeOK == /\ present \in BOOLEAN
          /\ file \in Seq(Byte \cup FieldsByte \cup {0, Hash})
          /\ depth \in Nat
          /\ pc \in {"off", "create", "up", "hung"}
          /\ popped \in Seq(Byte \cup FieldsByte \cup {0, Hash})
          /\ boots \in 0..MaxBoots

Records == [j \in 1..StoredRecords |->
              SubSeq(file, (j - 1) * MSG_SIZE + 2, j * MSG_SIZE + 1)]

\* The file is the marker, whole records, and zeros of popped records.  The
\* cursor arithmetic of pop and push never leaves a record boundary and never
\* reaches the marker, whatever power losses come between them
\* (stack_utils.c:72-106).
WholeRecords ==
  file # <<>> => /\ file[1] = Hash
                 /\ (Len(file) - 1) % MSG_SIZE = 0
                 /\ (Top(file) - 1) % MSG_SIZE = 0

\* After any number of restarts the counter still reaches every stored
\* record: no message is stranded below it (stack_utils.c:28-39).
NoneStranded == pc = "up" => depth >= StoredRecords

\* In the session that created the file the counter is exact, so the guard
\* fStack_depth > 0 of fStack_pop is the test for an empty stack.
ExactInFirstSession == (pc = "up" /\ boots = 1) => depth = StoredRecords

\* What fStack_depth may be relied on for: it reaches every stored message, and
\* is exact until the first restart (stack_utils.c:28-39, 72-106).
CountsRecords == NoneStranded /\ ExactInFirstSession

\* Counting at start-up never rewrites a file that holds no torn record
\* (stack_utils.c:43).
ScanLeavesFileAlone == [][ScanFile => file' = file]_vars

\* Only a file that lost power before its marker was written stops a boot.
HangsOnlyWithoutMarker == pc = "hung" => file = <<>>

Abstract == INSTANCE MessageStack WITH stack <- Records

\* The file implements the stack of MessageStack.
ImplementsStack == Abstract!Spec
-----------------------------------------------------------------------------
(* Claims of the source that the code does not keep.                       *)

\* stack_utils.c:44 "Broken Message!": what is repaired is broken.  TornPush is
\* no step of Spec, so a repair under Spec destroys sound records:
\* ScanLeavesFileAlone, with '#' among the data bytes.

\* stack_utils.c:67 "Repair Success!": a boot that repairs a torn push ends,
\* with the marker and whole records only.
RepairRestoresRecords ==
  [][(pc = "off" /\ pc' # "off" /\ file # <<>> /\ Broken(file))
       => (pc' = "up" /\ WholeRecords')]_vars
=============================================================================
