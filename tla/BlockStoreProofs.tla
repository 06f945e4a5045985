--------------------------- MODULE BlockStoreProofs ---------------------------
(***************************************************************************)
(* Proofs about BlockStore, for a store that was not imported from a       *)
(* snapshot (FirstBlock = 0): the store can always be opened, every block  *)
(* it reports can be read through the index, iterators deliver blocks in   *)
(* sequence, the height recorded by a rollback or reset keeps the peer     *)
(* from endorsing too early, and the store implements BlockLog.  With      *)
(* FirstBlock > 0 the first two are false: syncBlockfilesInfoFromFS takes  *)
(* the number of blocks for the number of the last block.                  *)
(*                                                                         *)
(* The invariant speaks of L, the number of blocks in the files: the files *)
(* hold blocks 0 to L - 1 in order (Layout); the summary on disk is absent *)
(* or at most one block behind (Summary); the index is right as far as it  *)
(* goes (Indexed); and what each program point adds to that.               *)
(***************************************************************************)
EXTENDS BlockStore, TLAPS

\* The number of blocks in file f, and block i of it.
Size(fs, f) == Len(fs[f].blocks)
At(fs, f, i) == fs[f].blocks[i]

\* The blocks in files fs are 0 to L - 1, in order. Only the last file may be empty or torn.
Layout(fs, L) ==
  /\ fs \in Seq(File)
  /\ \A f \in 1..Len(fs) : \A i \in 1..Size(fs, f) : At(fs, f, i) \in 0..(L - 1)
  /\ \A n \in 0..(L - 1) : \E f \in 1..Len(fs) : \E i \in 1..Size(fs, f) : At(fs, f, i) = n
  /\ \A f \in 1..Len(fs) : \A g \in 1..Len(fs) : f < g =>
       \A i \in 1..Size(fs, f) : \A j \in 1..Size(fs, g) : At(fs, f, i) < At(fs, g, j)
  /\ \A f \in 1..Len(fs) : \A i \in 1..Size(fs, f) : At(fs, f, i) = At(fs, f, 1) + (i - 1)
  /\ \A f \in 1..Len(fs) : f < Len(fs) => Size(fs, f) >= 1 /\ ~fs[f].torn

\* No file ends in a torn block.
Untorn(fs) == fs # << >> /\ ~fs[Len(fs)].torn

\* The number of blocks that a summary knows of.
Known(i) == IF i.none THEN 0 ELSE i.last + 1

\* Summary i of files fs with L blocks does not know of the last lag blocks. A file behind the
\* one it names is new, because the next block does not fit.
Summary(i, fs, L, lag) ==
  /\ i \in Info
  /\ Known(i) + lag = L
  /\ i.none => i.file = 1 /\ i.size = 0 /\ i.last = 0
  /\ \/ fs = << >> /\ i.none /\ lag = 0
     \/ /\ i.file \in 1..Len(fs)
        /\ i.size + lag = Size(fs, i.file)
        /\ i.file < Len(fs) =>
             /\ i.file + 1 = Len(fs) /\ fs[Len(fs)] = NoFile
             /\ L =< MaxBlock /\ FileSize(fs[i.file].blocks) + BlockSize[L] > MaxFileSize

\* Block n is behind location loc.
Locates(loc, fs, n) ==
  /\ loc \in Location
  /\ loc.file \in 1..Len(fs) /\ loc.pos + 1 \in 1..Size(fs, loc.file)
  /\ At(fs, loc.file, loc.pos + 1) = n

\* The index holds the blocks up to its savepoint.
Indexed(idx, sp, fs, L) ==
  /\ sp \in Int /\ -1 =< sp /\ sp < L
  /\ DOMAIN idx = 0..sp
  /\ \A n \in 0..sp : Locates(idx[n], fs, n)

\* What is on disk, at any time.
DiskOK(L) ==
  /\ L \in 0..(MaxBlock + 1)
  /\ Layout(files, L)
  /\ info = NoInfo \/ Summary(info, files, L, 0) \/ Summary(info, files, L, 1)
  /\ Indexed(index, savepoint, files, L)

\* While the store is opened.
OpeningOK(L) ==
  pc \in Opening =>
    /\ mem = info /\ Summary(mem, files, L, 0)
    /\ pc # "openFile" => Untorn(files)
    /\ pc = "syncIndex" => ~mem.none
    /\ pc = "header" => mem.none \/ savepoint = mem.last

\* Between two blocks, and until the block is in the file.
BeforeAppend(L) ==
  pc \in {"idle", "nextFile", "saveNext", "append"} =>
    /\ mem = info /\ Summary(mem, files, L, 0) /\ Untorn(files)
    /\ height = L /\ savepoint = L - 1
    /\ pc # "idle" => height =< MaxBlock
    /\ pc \in {"nextFile", "saveNext"} =>
         FileSize(files[mem.file].blocks) + BlockSize[height] > MaxFileSize
    /\ pc = "saveNext" => mem.file < Len(files)
    /\ pc = "append" => mem.file = Len(files)

\* From there until its height is reported.
AfterAppend(L) ==
  pc \in {"save", "index", "publish", "height"} =>
    /\ height \in 0..MaxBlock /\ L = height + 1 /\ Untorn(files)
    /\ mem.file = Len(files)
    /\ pc # "height" => Summary(mem, files, L, 1) /\ Summary(NewInfo, files, L, 0)
    /\ info = IF pc \in {"save", "height"} THEN mem ELSE NewInfo
    /\ pc = "height" => Summary(mem, files, L, 0)
    /\ savepoint = IF pc \in {"save", "index"} THEN height - 1 ELSE height

\* A rollback: the index goes before the files, and the search keeps its file in sight.
RollbackOK(L) ==
  /\ pc \in {"rbRecord", "rbWrite", "rbIndex", "rbInfo", "rbSearch", "rbFiles"} => target < L
  /\ pc \in {"rbInfo", "rbSearch", "rbFiles"} => savepoint =< target
  /\ pc \in {"rbSearch", "rbFiles"} =>
       /\ info = NoInfo
       /\ beginFile =< endFile /\ endFile =< Len(files)
       /\ Size(files, beginFile) >= 1 /\ At(files, beginFile, 1) =< target
       /\ \A g \in 1..Len(files) : g > endFile =>
            \A j \in 1..Size(files, g) : At(files, g, j) > target
  /\ pc = "rbFiles" => beginFile = endFile

\* A reset: index and summary are gone before the files are.
ResetOK == pc \in {"rsRecord", "rsWrite", "rsFiles"} => savepoint = None /\ info = NoInfo

\* The height before a truncation is in the files or recorded.
RecordOK(L) ==
  /\ pc \notin Serving => L >= peak \/ preReset >= peak
  /\ pc \in {"rbWrite", "rsWrite"} => L >= peak
  /\ pc \in {"rbIndex", "rbInfo", "rbSearch", "rbFiles", "rsFiles"} => preReset >= peak
  /\ pc \in Serving =>
       /\ height >= peak \/ preReset >= peak
       /\ preReset # Empty /\ (~reject => preReset = Absent)

\* An iterator stands behind the last block it delivered, and knows of no block that the
\* summary does not have.
ItrFits(it, fs, m) ==
  /\ ~m.none /\ ~it.failed
  /\ it.next # None /\ it.avail =< m.last
  /\ \/ it.loc = NoLoc /\ it.got = None
     \/ /\ it.got = it.next - 1
        /\ it.loc.file \in 1..Len(fs)
        /\ it.loc.pos \in 1..Size(fs, it.loc.file)
        /\ At(fs, it.loc.file, it.loc.pos) = it.next - 1

ItrOK == itr = NoItr \/ (pc \in Serving /\ ItrFits(itr, files, mem))

Iterator ==
  [next : {None} \cup 0..(MaxBlock + 1), avail : 0..MaxBlock, loc : Location,
   got : {None} \cup 0..MaxBlock, failed : BOOLEAN]

\* The types that the parts above leave open.
Typed ==
  /\ mem \in Info /\ info \in Info
  /\ preReset \in {Empty} \cup 0..(MaxBlock + 1)
  /\ height \in 0..(MaxBlock + 1) /\ peak \in 0..(MaxBlock + 1)
  /\ reject \in BOOLEAN
  /\ itr \in Iterator
  /\ pc \in {"down"} \cup Opening \cup Serving \cup Offline
  /\ target \in 0..MaxBlock /\ beginFile \in Nat \ {0} /\ endFile \in Nat \ {0}

Inv(L) ==
  /\ DiskOK(L) /\ Typed
  /\ OpeningOK(L) /\ BeforeAppend(L) /\ AfterAppend(L)
  /\ RollbackOK(L) /\ ResetOK /\ RecordOK(L) /\ ItrOK

IInv == \E L \in Nat : Inv(L)

-----------------------------------------------------------------------------
(* Facts about files. *)

\* A file without blocks has size 0.
LEMMA EmptyFile == FileSize(<< >>) = 0
<1> DEFINE D == SUBSET (1..Len(<< >>))
           C(s) == CHOOSE x \in s : TRUE
           G(g) == [s \in D |-> IF s = {} THEN 0 ELSE BlockSize[<< >>[C(s)]] + g[s \ {C(s)}]]
           S == CHOOSE g : g = G(g)
<1>1. FileSize(<< >>) = S[1..Len(<< >>)]
  BY DEF FileSize, MapThenSumSet, MapThenFoldSet
<1>2. 1..Len(<< >>) = {} /\ D = {{}}
  OBVIOUS
<1>3. [s \in D |-> 0] = G([s \in D |-> 0])
  BY <1>2
<1>4. S = G(S)
  <2> HIDE DEF G
  <2> QED
    BY <1>3
<1>5. S[{}] = G(S)[{}]
  <2> HIDE DEF S, G
  <2> QED
    BY <1>4
<1>6. \A g : G(g)[{}] = 0
  BY <1>2
<1> HIDE DEF S, G, D
<1> QED
  BY <1>1, <1>2, <1>5, <1>6

\* The types that a layout gives.
LEMMA LayoutTypes ==
  ASSUME NEW L \in Nat, NEW fs, Layout(fs, L)
  PROVE  /\ fs \in Seq(File) /\ Len(fs) \in Nat
         /\ \A f \in 1..Len(fs) :
              /\ fs[f] \in File /\ fs[f].blocks \in Seq(0..MaxBlock) /\ fs[f].torn \in BOOLEAN
              /\ Size(fs, f) \in Nat /\ Size(fs, f) = Len(fs[f].blocks)
              /\ \A i \in 1..Size(fs, f) : At(fs, f, i) \in Nat
<1>1. fs \in Seq(File) /\ Len(fs) \in Nat
  BY DEF Layout
<1>2. ASSUME NEW f \in 1..Len(fs)
      PROVE  /\ fs[f] \in File /\ fs[f].blocks \in Seq(0..MaxBlock) /\ fs[f].torn \in BOOLEAN
             /\ Size(fs, f) \in Nat /\ Size(fs, f) = Len(fs[f].blocks)
             /\ \A i \in 1..Size(fs, f) : At(fs, f, i) \in Nat
  <2>1. fs[f] \in File
    BY <1>1
  <2>2. fs[f].blocks \in Seq(0..MaxBlock) /\ fs[f].torn \in BOOLEAN
    BY <2>1 DEF File
  <2>3. PICK b \in Seq(0..MaxBlock) : b = fs[f].blocks
    BY <2>2
  <2>4. Len(b) \in Nat /\ \A i \in 1..Len(b) : b[i] \in Nat
    BY BlockStoreAssumption
  <2> QED
    BY <2>1, <2>2, <2>3, <2>4 DEF Size, At
<1> QED
  BY <1>1, <1>2

\* The order of two places in a layout is the order of their blocks.
LEMMA Places ==
  ASSUME NEW L \in Nat, NEW fs, Layout(fs, L),
         NEW f \in 1..Len(fs), NEW i \in 1..Size(fs, f),
         NEW g \in 1..Len(fs), NEW j \in 1..Size(fs, g)
  PROVE  /\ At(fs, f, i) \in 0..(L - 1) /\ At(fs, g, j) \in 0..(L - 1)
         /\ f < g => At(fs, f, i) < At(fs, g, j)
         /\ f = g => At(fs, f, i) = At(fs, g, j) + (i - j)
         /\ At(fs, f, i) =< At(fs, g, j) => f =< g
<1>1. /\ At(fs, f, i) \in 0..(L - 1) /\ At(fs, g, j) \in 0..(L - 1)
      /\ f < g => At(fs, f, i) < At(fs, g, j)
      /\ g < f => At(fs, g, j) < At(fs, f, i)
  BY DEF Layout
<1>2. Len(fs) \in Nat /\ Size(fs, f) \in Nat /\ Size(fs, g) \in Nat
  BY LayoutTypes
<1>3. ASSUME f = g PROVE At(fs, f, i) = At(fs, g, j) + (i - j)
  <2>1. At(fs, f, i) = At(fs, f, 1) + (i - 1) /\ At(fs, f, j) = At(fs, f, 1) + (j - 1)
    BY <1>3 DEF Layout
  <2>2. 1 \in 1..Size(fs, f)
    BY <1>2
  <2>3. At(fs, f, 1) \in Nat
    BY <2>2, LayoutTypes
  <2> QED
    BY <1>3, <2>1, <2>3
<1> QED
  BY <1>1, <1>2, <1>3

\* The last block of a last file that has one is L - 1.
LEMMA LastBlock ==
  ASSUME NEW L \in Nat, NEW fs, Layout(fs, L)
  PROVE  \A N \in Nat : \A k \in Nat : N = Len(fs) /\ N >= 1 /\ k = Size(fs, N) /\ k >= 1 =>
           /\ L >= 1 /\ At(fs, N, k) = L - 1
           /\ \A i \in 1..k : At(fs, N, i) = L - 1 - (k - i)
<1> SUFFICES ASSUME NEW N \in Nat, NEW k \in Nat, N = Len(fs), N >= 1, k = Size(fs, N), k >= 1
             PROVE  /\ L >= 1 /\ At(fs, N, k) = L - 1
                    /\ \A i \in 1..k : At(fs, N, i) = L - 1 - (k - i)
  OBVIOUS
<1>1. N \in 1..Len(fs) /\ k \in 1..Size(fs, N)
  OBVIOUS
<1>2. At(fs, N, k) \in 0..(L - 1)
  BY <1>1, Places
<1>3. L >= 1 /\ L - 1 \in 0..(L - 1)
  BY <1>2
<1>4. PICK f \in 1..Len(fs) : \E i \in 1..Size(fs, f) : At(fs, f, i) = L - 1
  BY <1>3 DEF Layout
<1>5. PICK i \in 1..Size(fs, f) : At(fs, f, i) = L - 1
  BY <1>4
<1>6. /\ f < N => At(fs, f, i) < At(fs, N, k)
      /\ f = N => At(fs, f, i) = At(fs, N, k) + (i - k)
  <2>1. PICK g \in 1..Len(fs) : g = N
    BY <1>1
  <2>2. PICK j \in 1..Size(fs, g) : j = k
    BY <1>1, <2>1
  <2>3. /\ f < g => At(fs, f, i) < At(fs, g, j)
        /\ f = g => At(fs, f, i) = At(fs, g, j) + (i - j)
    BY Places
  <2> QED
    BY <2>1, <2>2, <2>3
<1>7. f = N
  BY <1>2, <1>3, <1>5, <1>6
<1>8. At(fs, N, k) = L - 1
  BY <1>2, <1>3, <1>5, <1>6, <1>7
<1>9. ASSUME NEW j \in 1..k PROVE At(fs, N, j) = L - 1 - (k - j)
  <2>1. j \in 1..Size(fs, N)
    OBVIOUS
  <2>2. At(fs, N, j) \in 0..(L - 1) /\ At(fs, N, j) = At(fs, N, k) + (j - k)
    BY <1>1, <2>1, Places
  <2> QED
    BY <1>3, <1>8, <2>2
<1> QED
  BY <1>3, <1>8, <1>9

\* A layout whose last file changes: it holds h blocks from the same number on.
LEMMA ChangeLast ==
  ASSUME NEW L \in Nat, NEW fs, Layout(fs, L), NEW gs \in Seq(File),
         NEW N \in Nat, N >= 1, N = Len(fs), N = Len(gs),
         \A f \in 1..N : f < N => gs[f] = fs[f],
         NEW k \in Nat, k = Size(fs, N), NEW h \in Nat, h = Size(gs, N),
         \A i \in 1..h : At(gs, N, i) = (L - k) + (i - 1)
  PROVE  L - k + h \in Nat /\ Layout(gs, L - k + h)
<1>1. k >= 1 => /\ L >= 1 /\ At(fs, N, k) = L - 1
                /\ \A i \in 1..k : At(fs, N, i) = L - 1 - (k - i)
  <2>1. \A n \in Nat : \A q \in Nat : n = Len(fs) /\ n >= 1 /\ q = Size(fs, n) /\ q >= 1 =>
           /\ L >= 1 /\ At(fs, n, q) = L - 1
           /\ \A i \in 1..q : At(fs, n, i) = L - 1 - (q - i)
    BY LastBlock
  <2>2. N = Len(fs) /\ k = Size(fs, N) /\ N >= 1
    OBVIOUS
  <2>3. k >= 1 => L >= 1 /\ At(fs, N, k) = L - 1
    BY <2>1, <2>2
  <2>4. k >= 1 => \A i \in 1..k : At(fs, N, i) = L - 1 - (k - i)
    BY <2>1, <2>2
  <2> QED
    BY <2>3, <2>4
<1>2. L - k \in Nat
  <2>1. CASE k >= 1
    <3>1. 1 \in 1..k /\ N \in 1..Len(fs) /\ 1 \in 1..Size(fs, N)
      BY <2>1
    <3>2. At(fs, N, 1) = L - 1 - (k - 1) /\ At(fs, N, 1) \in Nat
      BY <1>1, <2>1, <3>1, LayoutTypes
    <3> QED
      BY <3>2
  <2> QED
    BY <2>1
<1>3. PICK B \in Nat : B = L - k
  BY <1>2
<1>4. PICK M \in Nat : M = B + h
  OBVIOUS
<1>5. \A f \in 1..N : f < N =>
        /\ Size(gs, f) = Size(fs, f) /\ Size(fs, f) \in Nat /\ Size(fs, f) >= 1
        /\ ~gs[f].torn
        /\ \A i : At(gs, f, i) = At(fs, f, i)
  <2> SUFFICES ASSUME NEW f \in 1..N, f < N
               PROVE  /\ Size(gs, f) = Size(fs, f) /\ Size(fs, f) \in Nat /\ Size(fs, f) >= 1
                      /\ ~gs[f].torn
                      /\ \A i : At(gs, f, i) = At(fs, f, i)
    OBVIOUS
  <2>1. gs[f] = fs[f]
    OBVIOUS
  <2>2. Size(fs, f) \in Nat /\ Size(fs, f) >= 1 /\ ~fs[f].torn
    BY LayoutTypes DEF Layout
  <2>3. Size(gs, f) = Size(fs, f) /\ \A i : At(gs, f, i) = At(fs, f, i)
    BY <2>1 DEF Size, At
  <2> QED
    BY <2>1, <2>2, <2>3
<1>6. ASSUME NEW f \in 1..N, f < N, NEW i \in 1..Size(fs, f)
      PROVE  At(fs, f, i) \in Nat /\ At(fs, f, i) < B
  <2>1. At(fs, f, i) \in 0..(L - 1)
    BY DEF Layout
  <2>2. CASE k >= 1
    <3>1. PICK g \in 1..Len(fs) : g = N
      OBVIOUS
    <3>2. PICK j \in 1..Size(fs, g) : j = 1
      BY <2>2, <3>1
    <3>3. At(fs, f, i) < At(fs, g, j)
      BY <1>6, <3>1 DEF Layout
    <3>4. At(fs, N, 1) = L - 1 - (k - 1)
      BY <1>1, <2>2
    <3> QED
      BY <1>3, <2>1, <3>1, <3>2, <3>3, <3>4
  <2>3. CASE k = 0
    BY <1>3, <2>1, <2>3
  <2> QED
    BY <2>2, <2>3
<1>7. \A i \in 1..h : At(gs, N, i) = B + (i - 1)
  BY <1>3
<1>8. ASSUME NEW f \in 1..N, NEW i \in 1..Size(gs, f)
      PROVE  At(gs, f, i) \in 0..(M - 1) /\ At(gs, f, i) = At(gs, f, 1) + (i - 1)
  <2>1. CASE f = N
    <3>1. i \in 1..h /\ 1 \in 1..h
      BY <1>8, <2>1
    <3>2. At(gs, f, i) = B + (i - 1) /\ At(gs, f, 1) = B + (1 - 1)
      BY <1>7, <2>1, <3>1
    <3> QED
      BY <1>4, <3>1, <3>2, SMTT(30)
  <2>2. CASE f < N
    <3>1. i \in 1..Size(fs, f) /\ At(gs, f, i) = At(fs, f, i) /\ At(gs, f, 1) = At(fs, f, 1)
      BY <1>5, <1>8, <2>2
    <3>2. At(fs, f, i) \in Nat /\ At(fs, f, i) < B
      BY <1>6, <2>2, <3>1
    <3>3. At(fs, f, i) = At(fs, f, 1) + (i - 1)
      BY <3>1 DEF Layout
    <3> QED
      BY <1>4, <3>1, <3>2, <3>3, SMTT(30)
  <2> QED
    BY <2>1, <2>2
<1>9. ASSUME NEW n \in 0..(M - 1)
      PROVE  \E f \in 1..N : \E i \in 1..Size(gs, f) : At(gs, f, i) = n
  <2>1. CASE n >= B
    <3>1. PICK i \in 1..h : i = n - B + 1
      BY <1>4, <2>1
    <3>2. At(gs, N, i) = B + (i - 1)
      BY <1>7
    <3>3. N \in 1..N /\ i \in 1..Size(gs, N) /\ At(gs, N, i) = n
      BY <3>1, <3>2
    <3> QED
      BY <3>3
  <2>2. CASE n < B
    <3>1. n \in 0..(L - 1)
      BY <1>3, <2>2
    <3>2. PICK f \in 1..N : \E i \in 1..Size(fs, f) : At(fs, f, i) = n
      BY <3>1 DEF Layout
    <3>3. PICK i \in 1..Size(fs, f) : At(fs, f, i) = n
      BY <3>2
    <3>4. f < N
      <4> SUFFICES ASSUME f = N PROVE FALSE
        OBVIOUS
      <4>1. i \in 1..k /\ k >= 1
        BY <3>3
      <4>2. At(fs, N, i) = L - 1 - (k - i)
        BY <1>1, <4>1
      <4> QED
        BY <1>3, <2>2, <3>3, <4>1, <4>2
    <3>5. i \in 1..Size(gs, f) /\ At(gs, f, i) = n
      BY <1>5, <3>3, <3>4
    <3> QED
      BY <3>5
  <2> QED
    BY <1>4, <2>1, <2>2
<1>10. ASSUME NEW f \in 1..N, NEW g \in 1..N, f < g,
              NEW i \in 1..Size(gs, f), NEW j \in 1..Size(gs, g)
       PROVE  At(gs, f, i) < At(gs, g, j)
  <2>1. f < N /\ i \in 1..Size(fs, f) /\ At(gs, f, i) = At(fs, f, i)
    BY <1>5, <1>10
  <2>2. CASE g = N
    <3>1. j \in 1..h
      BY <1>10, <2>2
    <3>2. At(gs, g, j) = B + (j - 1)
      BY <1>7, <2>2, <3>1
    <3>3. At(fs, f, i) \in Nat /\ At(fs, f, i) < B
      BY <1>6, <2>1
    <3> QED
      BY <2>1, <3>1, <3>2, <3>3
  <2>3. CASE g < N
    <3>1. j \in 1..Size(fs, g) /\ At(gs, g, j) = At(fs, g, j)
      BY <1>5, <1>10, <2>3
    <3>2. At(fs, f, i) < At(fs, g, j)
      BY <1>10, <2>1, <3>1 DEF Layout
    <3> QED
      BY <2>1, <3>1, <3>2
  <2> QED
    BY <2>2, <2>3
<1>11. Layout(gs, M)
  BY <1>5, <1>8, <1>9, <1>10 DEF Layout
<1> QED
  BY <1>3, <1>4, <1>11

\* What files fs hold, gs hold in the same place.
Extends(gs, fs) ==
  /\ Len(fs) =< Len(gs)
  /\ \A f \in 1..Len(fs) : \A i \in 1..Size(fs, f) :
       i \in 1..Size(gs, f) /\ At(gs, f, i) = At(fs, f, i)

\* A new file behind a last one that is not empty and not torn.
LEMMA NewFile ==
  ASSUME NEW L \in Nat, NEW fs, Layout(fs, L),
         fs = << >> \/ (Size(fs, Len(fs)) >= 1 /\ ~fs[Len(fs)].torn),
         NEW gs, gs = Append(fs, NoFile)
  PROVE  /\ Layout(gs, L) /\ Len(gs) = Len(fs) + 1 /\ Untorn(gs) /\ Extends(gs, fs)
         /\ gs[Len(gs)] = NoFile /\ Size(gs, Len(gs)) = 0
         /\ \A f \in 1..Len(fs) : gs[f] = fs[f] /\ Size(gs, f) = Size(fs, f)
<1>1. fs \in Seq(File) /\ Len(fs) \in Nat
  BY LayoutTypes
<1>2. NoFile \in File
  <2>1. << >> \in Seq(0..MaxBlock)
    OBVIOUS
  <2> QED
    BY <2>1 DEF NoFile, File
<1>3. PICK N \in Nat : N = Len(fs)
  BY <1>1
<1>4. /\ gs \in Seq(File) /\ Len(gs) = N + 1 /\ gs[N + 1] = NoFile
      /\ \A f \in 1..N : gs[f] = fs[f]
  <2>1. PICK e \in File : e = NoFile
    BY <1>2
  <2> QED
    BY <1>1, <1>3, <2>1
<1>5. Size(gs, N + 1) = 0
  BY <1>4 DEF Size, NoFile
<1>6. \A f \in 1..N : Size(gs, f) = Size(fs, f) /\ \A i : At(gs, f, i) = At(fs, f, i)
  BY <1>4 DEF Size, At
<1>7. \A f \in 1..(N + 1) : f \in 1..N \/ f = N + 1
  BY <1>3
<1>8. \A f \in 1..N : Size(fs, f) \in Nat
  BY <1>3, LayoutTypes
<1>9. \A f \in 1..(N + 1) : \A i \in 1..Size(gs, f) :
        f \in 1..N /\ i \in 1..Size(fs, f) /\ At(gs, f, i) = At(fs, f, i)
  BY <1>5, <1>6, <1>7
<1>10. /\ \A f \in 1..(N + 1) : \A i \in 1..Size(gs, f) : At(gs, f, i) \in 0..(L - 1)
       /\ \A f \in 1..(N + 1) : \A i \in 1..Size(gs, f) : At(gs, f, i) = At(gs, f, 1) + (i - 1)
  <2> SUFFICES ASSUME NEW f \in 1..(N + 1), NEW i \in 1..Size(gs, f)
               PROVE  At(gs, f, i) \in 0..(L - 1) /\ At(gs, f, i) = At(gs, f, 1) + (i - 1)
    OBVIOUS
  <2>1. f \in 1..Len(fs) /\ i \in 1..Size(fs, f) /\ At(gs, f, i) = At(fs, f, i)
    BY <1>3, <1>9
  <2>2. At(fs, f, i) \in 0..(L - 1) /\ At(fs, f, i) = At(fs, f, 1) + (i - 1)
    BY <2>1 DEF Layout
  <2> QED
    BY <1>3, <1>6, <2>1, <2>2
<1>11. \A f \in 1..(N + 1) : \A g \in 1..(N + 1) : f < g =>
         \A i \in 1..Size(gs, f) : \A j \in 1..Size(gs, g) : At(gs, f, i) < At(gs, g, j)
  BY <1>3, <1>9 DEF Layout
<1>12. ASSUME NEW n \in 0..(L - 1)
       PROVE  \E f \in 1..(N + 1) : \E i \in 1..Size(gs, f) : At(gs, f, i) = n
  <2>1. PICK f \in 1..N : \E i \in 1..Size(fs, f) : At(fs, f, i) = n
    BY <1>3 DEF Layout
  <2>2. PICK i \in 1..Size(fs, f) : At(fs, f, i) = n
    BY <2>1
  <2> QED
    BY <1>6, <2>2
<1>13. ASSUME NEW f \in 1..(N + 1), f < N + 1 PROVE Size(gs, f) >= 1 /\ ~gs[f].torn
  <2>1. f \in 1..N /\ fs # << >> /\ N >= 1
    BY <1>1, <1>3, <1>13
  <2>2. Size(fs, f) >= 1 /\ ~fs[f].torn
    <3>1. CASE f = N
      BY <1>3, <2>1, <3>1
    <3>2. CASE f < N
      BY <1>3, <2>1, <3>2 DEF Layout
    <3> QED
      BY <2>1, <3>1, <3>2
  <2> QED
    BY <1>4, <1>6, <2>1, <2>2
<1>14. Layout(gs, L)
  BY <1>4, <1>10, <1>11, <1>12, <1>13, ZenonT(30) DEF Layout
<1>15. Untorn(gs)
  BY <1>4 DEF Untorn, NoFile
<1>16. Extends(gs, fs)
  BY <1>3, <1>4, <1>6 DEF Extends
<1> QED
  BY <1>3, <1>4, <1>5, <1>6, <1>14, <1>15, <1>16

\* gs and fs differ in the last file only.
SameBefore(gs, fs) ==
  /\ fs # << >> /\ gs \in Seq(File) /\ Len(gs) = Len(fs)
  /\ \A f \in 1..Len(fs) : f < Len(fs) => gs[f] = fs[f]

\* Replacing the last file.
LEMMA ReplaceLast ==
  ASSUME NEW fs \in Seq(File), fs # << >>, NEW e \in File,
         NEW gs, gs = [fs EXCEPT ![Len(fs)] = e]
  PROVE  SameBefore(gs, fs) /\ gs[Len(fs)] = e
BY DEF SameBefore

\* The last file gets h blocks from the number on that its first one has, or L if it has none.
LEMMA ReplacedLast ==
  ASSUME NEW L \in Nat, NEW fs, Layout(fs, L), NEW gs, SameBefore(gs, fs),
         NEW N \in Nat, N = Len(fs),
         NEW k \in Nat, k = Size(fs, N), NEW h \in Nat, h = Size(gs, N),
         \A i \in 1..h : At(gs, N, i) = (L - k) + (i - 1)
  PROVE  L - k + h \in Nat /\ Layout(gs, L - k + h)
<1>1. gs \in Seq(File) /\ N >= 1 /\ N = Len(gs) /\ \A f \in 1..N : f < N => gs[f] = fs[f]
  <2>1. fs \in Seq(File) /\ fs # << >>
    BY LayoutTypes DEF SameBefore
  <2>2. N >= 1
    BY <2>1
  <2> QED
    BY <2>2 DEF SameBefore
<1> QED
  BY <1>1, ChangeLast

\* The next block behind the last one in the last file.
LEMMA GrowLast ==
  ASSUME NEW L \in Nat, L =< MaxBlock, NEW fs, Layout(fs, L), NEW gs, SameBefore(gs, fs),
         NEW N \in Nat, N = Len(fs), gs[N].blocks = Append(fs[N].blocks, L)
  PROVE  /\ Layout(gs, L + 1) /\ Extends(gs, fs)
         /\ Size(gs, N) = Size(fs, N) + 1 /\ At(gs, N, Size(gs, N)) = L
<1>1. N \in 1..Len(fs) /\ fs[N].blocks \in Seq(0..MaxBlock) /\ Size(fs, N) = Len(fs[N].blocks)
  <2>1. fs \in Seq(File) /\ fs # << >>
    BY LayoutTypes DEF SameBefore
  <2>2. N \in 1..Len(fs)
    BY <2>1
  <2> QED
    BY <2>2, LayoutTypes
<1>2. PICK b \in Seq(0..MaxBlock) : b = fs[N].blocks
  BY <1>1
<1>3. PICK k \in Nat : k = Len(b)
  OBVIOUS
<1>4. PICK n \in 0..MaxBlock : n = L
  BY BlockStoreAssumption
<1>5. /\ Append(b, n) \in Seq(0..MaxBlock) /\ Len(Append(b, n)) = k + 1
      /\ Append(b, n)[k + 1] = n /\ \A i \in 1..k : Append(b, n)[i] = b[i]
  BY <1>3
<1>6. /\ Size(fs, N) = k /\ Size(gs, N) = k + 1
      /\ At(gs, N, k + 1) = L /\ \A i \in 1..k : At(gs, N, i) = At(fs, N, i)
  BY <1>1, <1>2, <1>3, <1>4, <1>5 DEF Size, At
<1>7. ASSUME NEW i \in 1..(k + 1) PROVE At(gs, N, i) = (L - k) + (i - 1)
  <2>1. CASE i = k + 1
    <3>1. \A x \in Nat : x = (x - k) + ((k + 1) - 1)
      OBVIOUS
    <3> QED
      BY <1>6, <2>1, <3>1
  <2>2. CASE i \in 1..k
    <3>1. k >= 1
      BY <2>2
    <3>2. At(fs, N, i) = L - 1 - (k - i)
      <4>1. N >= 1
        BY <1>1
      <4> QED
        BY <1>6, <2>2, <3>1, <4>1, LastBlock
    <3>3. \A x \in Nat : x - 1 - (k - i) = (x - k) + (i - 1)
      BY <2>2
    <3> QED
      BY <1>6, <2>2, <3>2, <3>3
  <2> QED
    BY <2>1, <2>2
<1>8. PICK h \in Nat : h = k + 1
  OBVIOUS
<1>9. Layout(gs, L - k + h)
  BY <1>6, <1>7, <1>8, ReplacedLast
<1>10. Extends(gs, fs)
  <2>1. ASSUME NEW f \in 1..Len(fs), NEW i \in 1..Size(fs, f)
        PROVE  i \in 1..Size(gs, f) /\ At(gs, f, i) = At(fs, f, i)
    <3>1. CASE f = N
      <4>1. i \in 1..k
        BY <1>6, <2>1, <3>1
      <4> QED
        BY <1>6, <3>1, <4>1
    <3>2. CASE f < N
      <4>1. gs[f] = fs[f]
        BY <3>2 DEF SameBefore
      <4> QED
        BY <2>1, <4>1 DEF Size, At
    <3> QED
      BY <3>1, <3>2
  <2>2. Len(fs) =< Len(gs)
    BY DEF SameBefore
  <2> QED
    BY <2>1, <2>2 DEF Extends
<1>11. L - k + h = L + 1
  BY <1>8
<1> QED
  BY <1>6, <1>9, <1>10, <1>11

\* The last file keeps its first h blocks.
LEMMA CutLast ==
  ASSUME NEW L \in Nat, NEW fs, Layout(fs, L), NEW gs, SameBefore(gs, fs),
         NEW h \in 0..Size(fs, Len(fs)), gs[Len(fs)].blocks = SubSeq(fs[Len(fs)].blocks, 1, h)
  PROVE  /\ Extends(fs, gs) /\ Size(gs, Len(fs)) = h
         /\ \E M \in Nat : M + Size(fs, Len(fs)) = L + h /\ Layout(gs, M)
<1>1. PICK N \in Nat, k \in Nat : N = Len(fs) /\ k = Size(fs, N)
  <2>1. fs \in Seq(File) /\ fs # << >> /\ Len(fs) \in Nat
    BY LayoutTypes DEF SameBefore
  <2>2. Len(fs) \in 1..Len(fs)
    BY <2>1
  <2> QED
    BY <2>1, <2>2, LayoutTypes
<1>2. /\ N \in 1..Len(fs) /\ fs[N].blocks \in Seq(0..MaxBlock) /\ k = Len(fs[N].blocks)
      /\ Len(fs) \in Nat
  <2>1. fs \in Seq(File) /\ fs # << >>
    BY LayoutTypes DEF SameBefore
  <2>2. N \in 1..Len(fs)
    BY <1>1, <2>1
  <2> QED
    BY <1>1, <2>1, <2>2, LayoutTypes
<1>3. PICK b \in Seq(0..MaxBlock) : b = fs[N].blocks
  BY <1>2
<1>4. /\ Len(SubSeq(b, 1, h)) = h /\ \A i \in 1..h : SubSeq(b, 1, h)[i] = b[i]
  BY <1>1, <1>2, <1>3
<1>5. Size(gs, N) = h /\ \A i \in 1..h : At(gs, N, i) = At(fs, N, i)
  BY <1>1, <1>3, <1>4 DEF Size, At
<1>6. ASSUME NEW i \in 1..h PROVE At(gs, N, i) = (L - k) + (i - 1)
  <2>1. k >= 1 /\ N >= 1 /\ i \in 1..k
    BY <1>1, <1>2
  <2>2. At(fs, N, i) = L - 1 - (k - i)
    BY <1>1, <2>1, LastBlock
  <2>3. \A x \in Nat : x - 1 - (k - i) = (x - k) + (i - 1)
    BY <1>1
  <2> QED
    BY <1>5, <2>2, <2>3
<1>7. PICK q \in Nat : q = h
  BY <1>1
<1>8. L - k + q \in Nat /\ Layout(gs, L - k + q)
  BY <1>1, <1>5, <1>6, <1>7, ReplacedLast
<1>9. Extends(fs, gs)
  <2>1. ASSUME NEW f \in 1..Len(gs), NEW i \in 1..Size(gs, f)
        PROVE  i \in 1..Size(fs, f) /\ At(fs, f, i) = At(gs, f, i)
    <3>1. CASE f = N
      <4>1. i \in 1..h
        BY <1>5, <2>1, <3>1
      <4> QED
        BY <1>1, <1>5, <3>1, <4>1
    <3>2. CASE f # N
      <4>1. gs[f] = fs[f]
        BY <1>1, <1>2, <3>2 DEF SameBefore
      <4> QED
        BY <2>1, <4>1 DEF Size, At
    <3> QED
      BY <3>1, <3>2
  <2>2. Len(gs) =< Len(fs)
    BY <1>2 DEF SameBefore
  <2> QED
    BY <2>1, <2>2 DEF Extends
<1>10. (L - k + q) + k = L + h
  BY <1>7
<1> QED
  BY <1>1, <1>5, <1>8, <1>9, <1>10

\* The last file keeps its blocks.
LEMMA SameBlocks ==
  ASSUME NEW L \in Nat, NEW fs, Layout(fs, L), NEW gs, SameBefore(gs, fs),
         gs[Len(fs)].blocks = fs[Len(fs)].blocks
  PROVE  /\ Layout(gs, L) /\ Extends(gs, fs) /\ Len(gs) = Len(fs) /\ gs # << >>
         /\ \A f \in 1..Len(fs) : gs[f].blocks = fs[f].blocks /\ Size(gs, f) = Size(fs, f)
<1>1. fs \in Seq(File) /\ fs # << >> /\ Len(gs) = Len(fs) /\ Len(fs) \in Nat /\ gs \in Seq(File)
  BY LayoutTypes DEF SameBefore
<1>2. PICK N \in Nat : N = Len(fs) /\ N \in 1..Len(fs)
  BY <1>1
<1>3. PICK b \in Seq(0..MaxBlock) : b = fs[N].blocks
  BY <1>2, LayoutTypes
<1>4. PICK k \in Nat : k = Len(b) /\ k = Size(fs, N)
  BY <1>2, <1>3 DEF Size
<1>5. SubSeq(b, 1, Len(b)) = b
  OBVIOUS
<1>6. gs[Len(fs)].blocks = SubSeq(fs[Len(fs)].blocks, 1, k) /\ k \in 0..Size(fs, Len(fs))
  BY <1>2, <1>3, <1>4, <1>5
<1>7. PICK M \in Nat : M + k = L + k /\ Layout(gs, M)
  <2>1. \E M \in Nat : M + Size(fs, Len(fs)) = L + k /\ Layout(gs, M)
    BY <1>6, CutLast
  <2> QED
    BY <1>2, <1>4, <2>1
<1>8. M = L
  BY <1>7
<1>9. \A f \in 1..Len(fs) : gs[f].blocks = fs[f].blocks
  <2> SUFFICES ASSUME NEW f \in 1..Len(fs) PROVE gs[f].blocks = fs[f].blocks
    OBVIOUS
  <2>1. f = Len(fs) \/ f < Len(fs)
    BY <1>1
  <2> QED
    BY <2>1 DEF SameBefore
<1>10. \A f \in 1..Len(fs) : Size(gs, f) = Size(fs, f) /\ \A j : At(gs, f, j) = At(fs, f, j)
  BY <1>9 DEF Size, At
<1>11. Extends(gs, fs)
  BY <1>1, <1>10 DEF Extends
<1>12. gs # << >>
  BY <1>1
<1> QED
  BY <1>1, <1>7, <1>8, <1>9, <1>10, <1>11, <1>12

\* The last file goes.
LEMMA DropLast ==
  ASSUME NEW L \in Nat, NEW fs, Layout(fs, L), NEW N \in Nat, N = Len(fs), N >= 2,
         NEW gs \in Seq(File), Len(gs) = N - 1, \A f \in 1..(N - 1) : gs[f] = fs[f]
  PROVE  /\ Extends(fs, gs) /\ Untorn(gs)
         /\ \E M \in 0..L :
              /\ Layout(gs, M)
              /\ Size(fs, N) = 0 => M = L
              /\ Size(fs, N) >= 1 => M = At(fs, N, 1)
<1>1. fs \in Seq(File) /\ N \in 1..Len(fs) /\ Size(fs, N) \in Nat
  <2>1. N \in 1..Len(fs)
    OBVIOUS
  <2> QED
    BY <2>1, LayoutTypes
<1>2. PICK P \in Nat : P = N - 1 /\ P >= 1
  <2>1. \A x \in Nat : x >= 2 => x - 1 \in Nat /\ x - 1 >= 1
    OBVIOUS
  <2> QED
    BY <2>1, Zenon
<1>3. gs \in Seq(File) /\ Len(gs) = P /\ \A f \in 1..P : gs[f] = fs[f]
  BY <1>1, <1>2
<1>4. \A f \in 1..P : f \in 1..Len(fs) /\ f < N
  BY <1>2
<1>5. \A f \in 1..P : Size(gs, f) = Size(fs, f) /\ \A i : At(gs, f, i) = At(fs, f, i)
  BY <1>3 DEF Size, At
<1>6. PICK M \in 0..L : /\ Size(fs, N) = 0 => M = L
                        /\ Size(fs, N) >= 1 => M = At(fs, N, 1)
  <2>1. CASE Size(fs, N) = 0
    BY <2>1
  <2>2. CASE Size(fs, N) >= 1
    <3>1. 1 \in 1..Size(fs, N)
      BY <1>1, <2>2
    <3>2. At(fs, N, 1) \in 0..(L - 1)
      BY <1>1, <3>1 DEF Layout
    <3> QED
      BY <2>2, <3>2
  <2> QED
    BY <1>1, <2>1, <2>2
<1>7. ASSUME NEW f \in 1..P, NEW i \in 1..Size(fs, f)
      PROVE  At(fs, f, i) \in 0..(M - 1)
  <2>1. At(fs, f, i) \in 0..(L - 1)
    BY <1>4 DEF Layout
  <2>2. CASE Size(fs, N) = 0
    BY <1>6, <2>1, <2>2
  <2>3. CASE Size(fs, N) >= 1
    <3>1. PICK j \in 1..Size(fs, N) : j = 1
      BY <1>1, <2>3
    <3>2. At(fs, f, i) < At(fs, N, j)
      BY <1>1, <1>4 DEF Layout
    <3> QED
      BY <1>6, <2>1, <2>3, <3>1, <3>2
  <2> QED
    BY <1>1, <2>2, <2>3
<1>8. ASSUME NEW n \in 0..(M - 1)
      PROVE  \E f \in 1..P : \E i \in 1..Size(gs, f) : At(gs, f, i) = n
  <2>1. n \in 0..(L - 1)
    BY <1>6
  <2>2. PICK f \in 1..Len(fs) : \E i \in 1..Size(fs, f) : At(fs, f, i) = n
    BY <2>1 DEF Layout
  <2>3. PICK i \in 1..Size(fs, f) : At(fs, f, i) = n
    BY <2>2
  <2>4. f \in 1..P
    <3> SUFFICES ASSUME f = N PROVE FALSE
      BY <1>2
    <3>1. Size(fs, N) >= 1
      BY <1>1, <2>3
    <3>2. At(fs, N, i) = At(fs, N, 1) + (i - 1) /\ M = At(fs, N, 1)
      BY <1>1, <1>6, <2>3, <3>1 DEF Layout
    <3> QED
      BY <2>3, <3>2
  <2> QED
    BY <1>5, <2>3, <2>4
<1>9. ASSUME NEW f \in 1..P, NEW i \in 1..Size(gs, f)
      PROVE  At(gs, f, i) \in 0..(M - 1) /\ At(gs, f, i) = At(gs, f, 1) + (i - 1)
  <2>1. i \in 1..Size(fs, f) /\ At(gs, f, i) = At(fs, f, i) /\ At(gs, f, 1) = At(fs, f, 1)
    BY <1>5, <1>9
  <2>2. At(fs, f, i) = At(fs, f, 1) + (i - 1)
    BY <1>4, <2>1 DEF Layout
  <2>3. At(fs, f, i) \in 0..(M - 1)
    BY <1>7, <2>1
  <2> QED
    BY <2>1, <2>2, <2>3
<1>10. ASSUME NEW f \in 1..P, NEW g \in 1..P, f < g,
              NEW i \in 1..Size(gs, f), NEW j \in 1..Size(gs, g)
       PROVE  At(gs, f, i) < At(gs, g, j)
  <2>1. /\ i \in 1..Size(fs, f) /\ At(gs, f, i) = At(fs, f, i)
        /\ j \in 1..Size(fs, g) /\ At(gs, g, j) = At(fs, g, j)
    BY <1>5, <1>10
  <2>2. At(fs, f, i) < At(fs, g, j)
    BY <1>4, <1>10, <2>1 DEF Layout
  <2> QED
    BY <2>1, <2>2
<1>11. \A f \in 1..P : Size(gs, f) >= 1 /\ ~gs[f].torn
  <2> SUFFICES ASSUME NEW f \in 1..P PROVE Size(gs, f) >= 1 /\ ~gs[f].torn
    OBVIOUS
  <2>1. Size(fs, f) >= 1 /\ ~fs[f].torn
    BY <1>4 DEF Layout
  <2> QED
    BY <1>3, <1>5, <2>1
<1>12. Layout(gs, M)
  <2>1. \A f \in 1..Len(gs) : f < Len(gs) => Size(gs, f) >= 1 /\ ~gs[f].torn
    BY <1>3, <1>11
  <2>2. \A f \in 1..Len(gs) : \A i \in 1..Size(gs, f) :
          At(gs, f, i) \in 0..(M - 1) /\ At(gs, f, i) = At(gs, f, 1) + (i - 1)
    BY <1>3, <1>9
  <2>3. \A n \in 0..(M - 1) : \E f \in 1..Len(gs) : \E i \in 1..Size(gs, f) : At(gs, f, i) = n
    BY <1>3, <1>8
  <2>4. \A f \in 1..Len(gs) : \A g \in 1..Len(gs) : f < g =>
          \A i \in 1..Size(gs, f) : \A j \in 1..Size(gs, g) : At(gs, f, i) < At(gs, g, j)
    BY <1>3, <1>10
  <2> QED
    BY <1>3, <2>1, <2>2, <2>3, <2>4 DEF Layout
<1>13. Untorn(gs)
  <2>1. P \in 1..P /\ Len(gs) = P
    BY <1>2, <1>3
  <2>2. gs # << >>
    <3>1. Len(<< >>) = 0
      OBVIOUS
    <3> QED
      BY <1>2, <2>1, <3>1
  <2> QED
    BY <1>11, <2>1, <2>2 DEF Untorn
<1>14. Extends(fs, gs)
  BY <1>2, <1>3, <1>5 DEF Extends
<1> QED
  BY <1>2, <1>3, <1>6, <1>12, <1>13, <1>14

\* The index stays right when files grow.
LEMMA IndexedGrows ==
  ASSUME NEW fs, NEW gs, Extends(gs, fs), Len(fs) \in Nat, Len(gs) \in Nat,
         NEW L \in Nat, NEW M \in Nat, L =< M, NEW idx, NEW sp, Indexed(idx, sp, fs, L)
  PROVE  Indexed(idx, sp, gs, M)
<1>1. ASSUME NEW n \in 0..sp PROVE Locates(idx[n], gs, n)
  <2>1. Locates(idx[n], fs, n)
    BY DEF Indexed
  <2>2. PICK loc : loc = idx[n]
    OBVIOUS
  <2>3. Locates(loc, fs, n)
    BY <2>1, <2>2
  <2>4. Locates(loc, gs, n)
    <3>1. /\ loc \in Location /\ loc.file \in 1..Len(fs) /\ loc.pos + 1 \in 1..Size(fs, loc.file)
          /\ At(fs, loc.file, loc.pos + 1) = n
      BY <2>3 DEF Locates
    <3>2. /\ loc.pos + 1 \in 1..Size(gs, loc.file)
          /\ At(gs, loc.file, loc.pos + 1) = At(fs, loc.file, loc.pos + 1)
      BY <3>1 DEF Extends
    <3>3. loc.file \in 1..Len(gs)
      BY <3>1 DEF Extends
    <3> QED
      BY <3>1, <3>2, <3>3 DEF Locates
  <2> QED
    BY <2>2, <2>4
<1> QED
  BY <1>1 DEF Indexed

\* It stays right when they shrink, as long as its last block is there.
LEMMA IndexedShrinks ==
  ASSUME NEW fs, NEW gs, Extends(fs, gs), NEW L \in Nat, NEW M \in Nat,
         Layout(fs, L), Layout(gs, M), NEW idx, NEW sp, Indexed(idx, sp, fs, L), sp < M
  PROVE  Indexed(idx, sp, gs, M)
<1>1. Len(fs) \in Nat /\ Len(gs) \in Nat /\ Len(gs) =< Len(fs) /\ sp \in Int
  BY LayoutTypes DEF Extends, Indexed
<1>2. ASSUME NEW n \in 0..sp PROVE Locates(idx[n], gs, n)
  <2>1. Locates(idx[n], fs, n)
    BY DEF Indexed
  <2>2. PICK loc : loc = idx[n]
    OBVIOUS
  <2>3. Locates(loc, fs, n)
    BY <2>1, <2>2
  <2>4. /\ loc \in Location /\ loc.file \in 1..Len(fs) /\ loc.pos + 1 \in 1..Size(fs, loc.file)
        /\ At(fs, loc.file, loc.pos + 1) = n
    BY <2>3 DEF Locates
  <2>5. PICK f \in 1..Len(gs) : \E i \in 1..Size(gs, f) : At(gs, f, i) = n
    <3>1. n \in 0..(M - 1)
      BY <1>1
    <3> QED
      BY <3>1 DEF Layout
  <2>6. PICK i \in 1..Size(gs, f) : At(gs, f, i) = n
    BY <2>5
  <2>7. f \in 1..Len(fs) /\ i \in 1..Size(fs, f) /\ At(fs, f, i) = n
    BY <1>1, <2>6 DEF Extends
  <2>8. PICK g \in 1..Len(fs) : g = loc.file
    BY <2>4
  <2>9. PICK j \in 1..Size(fs, g) : j = loc.pos + 1
    BY <2>4, <2>8
  <2>10. At(fs, g, j) = n /\ n \in Int
    BY <1>1, <2>4, <2>8, <2>9
  <2>11. f = g /\ i = j
    <3>1. f =< g /\ g =< f /\ (f = g => At(fs, f, i) = At(fs, g, j) + (i - j))
      BY <2>7, <2>10, Places, SMTT(30)
    <3>2. f = g
      BY <1>1, <3>1
    <3>3. i \in Int /\ j \in Int
      BY <1>1, <2>7, LayoutTypes
    <3> QED
      BY <2>7, <2>10, <3>1, <3>2, <3>3
  <2>12. Locates(loc, gs, n)
    BY <2>4, <2>6, <2>8, <2>9, <2>11 DEF Locates
  <2> QED
    BY <2>2, <2>12
<1> QED
  BY <1>2 DEF Indexed

-----------------------------------------------------------------------------
(* Reading files. *)

\* A stream at loc has block n before it.
Precedes(loc, fs, n) ==
  \/ Locates(loc, fs, n)
  \/ /\ loc \in Location
     /\ loc.file \in 1..Len(fs) /\ loc.pos \in 1..Size(fs, loc.file)
     /\ At(fs, loc.file, loc.pos) = n - 1
  \/ loc = [file |-> 1, pos |-> 0] /\ n = 0 /\ Len(fs) >= 1

\* Where a stream at loc starts in file f.
Start(loc, f) == IF f = loc.file THEN loc.pos ELSE 0

\* What a stream at loc has before it are the blocks from n on.
LEMMA Ahead ==
  ASSUME NEW L \in Nat, NEW fs, Layout(fs, L), NEW n \in Nat, NEW loc, Precedes(loc, fs, n)
  PROVE  /\ loc \in Location /\ loc.file \in 1..Len(fs)
         /\ \A g \in 1..Len(fs) : \A j \in 1..Size(fs, g) :
              /\ g >= loc.file => (j > Start(loc, g) <=> At(fs, g, j) >= n)
              /\ At(fs, g, j) >= n => g >= loc.file
<1>1. loc \in Location /\ loc.file \in 1..Len(fs)
  <2>1. CASE loc = [file |-> 1, pos |-> 0] /\ n = 0 /\ Len(fs) >= 1
    <3>1. Len(fs) \in Nat
      BY LayoutTypes
    <3> QED
      BY <2>1, <3>1 DEF Location
  <2> QED
    BY <2>1 DEF Precedes, Locates
<1>2. PICK h \in 1..Len(fs) : h = loc.file
  BY <1>1
<1>3. PICK p \in Nat : p = loc.pos
  BY <1>1 DEF Location
<1>4. Len(fs) \in Nat /\ h \in Nat
  BY LayoutTypes
<1>5. ASSUME NEW g \in 1..Len(fs), NEW j \in 1..Size(fs, g)
      PROVE  /\ g >= h => (j > Start(loc, g) <=> At(fs, g, j) >= n)
             /\ At(fs, g, j) >= n => g >= h
  <2>1. At(fs, g, j) \in Nat /\ Size(fs, g) \in Nat /\ j \in Nat /\ g \in Nat /\ j >= 1
    BY <1>4, LayoutTypes
  <2>2. Start(loc, g) = IF g = h THEN p ELSE 0
    BY <1>2, <1>3 DEF Start
  <2>3. CASE Locates(loc, fs, n)
    <3>1. PICK q \in 1..Size(fs, h) : q = p + 1 /\ At(fs, h, q) = n
      BY <1>2, <1>3, <2>3 DEF Locates
    <3>2. /\ h < g => At(fs, h, q) < At(fs, g, j)
          /\ g < h => At(fs, g, j) < At(fs, h, q)
          /\ g = h => At(fs, g, j) = At(fs, h, q) + (j - q)
      BY Places
    <3>3. q \in Nat
      BY <1>3, <3>1
    <3>4. CASE g < h
      BY <1>4, <2>1, <3>1, <3>2, <3>4
    <3>5. CASE g = h
      <4>1. \A x, y \in Nat : x = n + (y - q) => (y > p <=> x >= n)
        BY <3>1, <3>3
      <4>2. At(fs, g, j) = n + (j - q) /\ Start(loc, g) = p
        BY <2>2, <3>1, <3>2, <3>5
      <4>3. j > Start(loc, g) <=> At(fs, g, j) >= n
        BY <2>1, <4>1, <4>2
      <4>4. g >= h
        BY <1>4, <3>5
      <4> QED
        BY <4>3, <4>4
    <3>6. CASE h < g
      BY <1>4, <2>1, <2>2, <3>1, <3>2, <3>6
    <3> QED
      BY <1>4, <2>1, <3>4, <3>5, <3>6
  <2>4. CASE /\ loc.pos \in 1..Size(fs, loc.file)
             /\ At(fs, loc.file, loc.pos) = n - 1
    <3>1. PICK q \in 1..Size(fs, h) : q = p /\ At(fs, h, q) = n - 1
      BY <1>2, <1>3, <2>4
    <3>2. /\ h < g => At(fs, h, q) < At(fs, g, j)
          /\ g < h => At(fs, g, j) < At(fs, h, q)
          /\ g = h => At(fs, g, j) = At(fs, h, q) + (j - q)
      BY Places
    <3>3. q \in Nat
      BY <1>3, <3>1
    <3>4. CASE g < h
      BY <1>4, <2>1, <3>1, <3>2, <3>4
    <3>5. CASE g = h
      <4>1. \A x, y \in Nat : x = (n - 1) + (y - q) => (y > q <=> x >= n)
        BY <3>3
      <4>2. At(fs, g, j) = (n - 1) + (j - q) /\ Start(loc, g) = q
        BY <2>2, <3>1, <3>2, <3>5
      <4> QED
        BY <2>1, <3>5, <4>1, <4>2
    <3>6. CASE h < g
      BY <1>4, <2>1, <2>2, <3>1, <3>2, <3>6
    <3> QED
      BY <1>4, <2>1, <3>4, <3>5, <3>6
  <2>5. CASE loc = [file |-> 1, pos |-> 0] /\ n = 0
    <3>1. h = 1 /\ p = 0
      BY <1>2, <1>3, <2>5
    <3> QED
      BY <2>1, <2>2, <2>5, <3>1
  <2> QED
    BY <2>3, <2>4, <2>5 DEF Precedes
<1> QED
  BY <1>1, <1>2, <1>5

\* The files in which a stream at loc finds something.
LEMMA More ==
  ASSUME NEW L \in Nat, Layout(files, L), Untorn(files),
         NEW loc, loc.file \in 1..Len(files), NEW last \in 1..Len(files)
  PROVE  {f \in loc.file..last : Len(files[f].blocks) > Start(loc, f) \/ files[f].torn}
           = {f \in 1..last : f >= loc.file /\ Size(files, f) > Start(loc, f)}
<1>1. Len(files) \in Nat
  BY LayoutTypes
<1>2. \A f \in 1..Len(files) : ~files[f].torn /\ Size(files, f) = Len(files[f].blocks)
  <2> SUFFICES ASSUME NEW f \in 1..Len(files) PROVE ~files[f].torn
    BY LayoutTypes
  <2>1. CASE f < Len(files)
    BY <2>1 DEF Layout
  <2>2. CASE f = Len(files)
    BY <2>2 DEF Untorn
  <2> QED
    BY <1>1, <2>1, <2>2
<1>3. PICK h \in 1..Len(files) : h = loc.file
  OBVIOUS
<1>4. \A f : f \in h..last <=> f \in 1..last /\ f >= h
  BY <1>1
<1>5. \A f \in 1..last : f \in 1..Len(files)
  BY <1>1
<1> QED
  BY <1>2, <1>3, <1>4, <1>5

\* A stream finds the next block, also in a later file.
LEMMA StreamFinds ==
  ASSUME NEW L \in Nat, Layout(files, L), Untorn(files),
         NEW n \in 0..(L - 1), NEW loc, Precedes(loc, files, n), NEW last \in 1..Len(files),
         \A f \in 1..Len(files) : f > last => Size(files, f) = 0
  PROVE  /\ Locates(StreamNext(loc, last), files, n)
         /\ StreamNext(loc, last) \notin {NoLoc, TornLoc}
<1>1. /\ loc \in Location /\ loc.file \in 1..Len(files)
      /\ \A g \in 1..Len(files) : \A j \in 1..Size(files, g) :
           /\ g >= loc.file => (j > Start(loc, g) <=> At(files, g, j) >= n)
           /\ At(files, g, j) >= n => g >= loc.file
  BY Ahead
<1>2. Len(files) \in Nat /\ loc.file \in Nat /\ loc.pos \in Nat
  BY <1>1, LayoutTypes DEF Location
<1>3. PICK f \in 1..Len(files) : \E i \in 1..Size(files, f) : At(files, f, i) = n
  BY DEF Layout
<1>4. PICK i \in 1..Size(files, f) : At(files, f, i) = n
  BY <1>3
<1>5. \A g \in 1..Len(files) : Size(files, g) \in Nat /\ Start(loc, g) \in Nat
  BY <1>2, LayoutTypes DEF Start
<1>6. f =< last
  BY <1>2, <1>4, <1>5
<1>7. f >= loc.file /\ i > Start(loc, f)
  BY <1>1, <1>4
<1> DEFINE more == {g \in 1..last : g >= loc.file /\ Size(files, g) > Start(loc, g)}
<1>8. f \in more
  BY <1>2, <1>4, <1>5, <1>6, <1>7
<1>9. ASSUME NEW g \in more PROVE f =< g
  <2>1. g \in 1..Len(files) /\ g >= loc.file /\ Size(files, g) > Start(loc, g)
    BY <1>2
  <2>2. PICK j \in 1..Size(files, g) : j = Start(loc, g) + 1
    <3>1. \A x, y \in Nat : x > y => y + 1 \in 1..x
      OBVIOUS
    <3> QED
      BY <1>5, <2>1, <3>1
  <2>3. At(files, g, j) >= n
    BY <1>1, <1>5, <2>1, <2>2, SMTT(30)
  <2>4. At(files, f, i) =< At(files, g, j) => f =< g
    BY <2>1, Places
  <2>5. At(files, g, j) \in Nat
    BY <2>1, LayoutTypes
  <2> QED
    BY <1>4, <2>3, <2>4, <2>5
<1>10. Min(more) = f
  <2>1. more \subseteq Int
    BY <1>2
  <2>2. \A x \in more : (\A y \in more : x =< y) => x = f
    BY <1>2, <1>8, <1>9, <2>1
  <2>3. \E x \in more : \A y \in more : x =< y
    BY <1>8, <1>9
  <2> HIDE DEF more
  <2> QED
    BY <2>2, <2>3 DEF Min
<1>11. PICK q \in Nat : q = Start(loc, f) /\ q < i
  BY <1>5, <1>7
<1>12. StreamNext(loc, last) = [file |-> f, pos |-> q]
  <2>1. {g \in loc.file..last : Len(files[g].blocks) > Start(loc, g) \/ files[g].torn} = more
    BY <1>1, More
  <2>2. Len(files[f].blocks) > Start(loc, f) /\ more # {}
    BY <1>8 DEF Size
  <2> HIDE DEF more
  <2> QED
    BY <1>10, <1>11, <2>1, <2>2 DEF StreamNext, Start
<1>13. At(files, f, q + 1) = n /\ q + 1 \in 1..Size(files, f)
  <2>1. PICK j \in 1..Size(files, f) : j = q + 1
    BY <1>5, <1>11
  <2>2. At(files, f, j) >= n
    BY <1>1, <1>7, <1>11, <2>1
  <2>3. At(files, f, i) = At(files, f, j) + (i - j) /\ At(files, f, j) \in Nat
    <3>1. At(files, f, j) \in Nat
      BY LayoutTypes
    <3>2. At(files, f, i) = At(files, f, j) + (i - j)
      BY Places
    <3> QED
      BY <3>1, <3>2
  <2>4. \A x, y \in Nat : \A a, b \in Nat : x = y + (a - b) /\ y >= x /\ a >= b => y = x
    OBVIOUS
  <2>5. i \in Nat /\ j \in Nat /\ i >= j
    BY <1>5, <1>11, <2>1
  <2> QED
    BY <1>4, <2>1, <2>2, <2>3, <2>4, <2>5
<1>14. PICK r : r = StreamNext(loc, last)
  OBVIOUS
<1>15. r.file = f /\ r.pos = q /\ r \in Location
  BY <1>2, <1>12, <1>14 DEF Location
<1>16. Locates(r, files, n)
  BY <1>13, <1>15 DEF Locates
<1>17. r # NoLoc /\ r # TornLoc
  BY <1>2, <1>15 DEF NoLoc, TornLoc
<1> QED
  BY <1>14, <1>16, <1>17

\* Behind the last block a stream ends.
LEMMA StreamEnds ==
  ASSUME NEW L \in Nat, Layout(files, L), Untorn(files),
         NEW loc, Precedes(loc, files, L), NEW last \in 1..Len(files)
  PROVE  StreamNext(loc, last) = NoLoc
<1>1. /\ loc \in Location /\ loc.file \in 1..Len(files)
      /\ \A g \in 1..Len(files) : \A j \in 1..Size(files, g) :
           g >= loc.file => (j > Start(loc, g) <=> At(files, g, j) >= L)
  BY Ahead
<1>2. Len(files) \in Nat /\ loc.pos \in Nat
  BY <1>1, LayoutTypes DEF Location
<1>3. \A g \in 1..Len(files) : Size(files, g) \in Nat /\ Start(loc, g) \in Nat
  BY <1>2, LayoutTypes DEF Start
<1> DEFINE more == {g \in 1..last : g >= loc.file /\ Size(files, g) > Start(loc, g)}
<1>4. more = {}
  <2> SUFFICES ASSUME NEW g \in more PROVE FALSE
    OBVIOUS
  <2>1. g \in 1..Len(files) /\ g >= loc.file /\ Size(files, g) > Start(loc, g)
    BY <1>2
  <2>2. PICK j \in 1..Size(files, g) : j = Start(loc, g) + 1
    BY <1>3, <2>1
  <2>3. At(files, g, j) >= L
    BY <1>1, <1>3, <2>1, <2>2
  <2>4. At(files, g, j) \in 0..(L - 1)
    BY <2>1 DEF Layout
  <2> QED
    BY <2>3, <2>4
<1>5. {g \in loc.file..last : Len(files[g].blocks) > Start(loc, g) \/ files[g].torn} = more
  BY <1>1, More
<1> HIDE DEF more
<1> QED
  BY <1>4, <1>5 DEF StreamNext, Start

-----------------------------------------------------------------------------
(* The summary. *)

\* If the files behind file P are empty, the last block of P is L - 1.
LEMMA LastStored ==
  ASSUME NEW L \in Nat, NEW fs, Layout(fs, L), NEW P \in 1..Len(fs),
         \A g \in 1..Len(fs) : g > P => Size(fs, g) = 0, NEW k \in 1..Size(fs, P), k = Size(fs, P)
  PROVE  L >= 1 /\ At(fs, P, k) = L - 1
<1>1. At(fs, P, k) \in 0..(L - 1) /\ Len(fs) \in Nat
  BY LayoutTypes DEF Layout
<1>2. PICK f \in 1..Len(fs) : \E i \in 1..Size(fs, f) : At(fs, f, i) = L - 1
  <2>1. L - 1 \in 0..(L - 1)
    BY <1>1
  <2> QED
    BY <2>1 DEF Layout
<1>3. PICK i \in 1..Size(fs, f) : At(fs, f, i) = L - 1
  BY <1>2
<1>4. Size(fs, f) \in Nat /\ Size(fs, P) \in Nat
  BY LayoutTypes
<1>5. f =< P
  BY <1>1, <1>3, <1>4
<1>6. /\ f < P => At(fs, f, i) < At(fs, P, k)
      /\ f = P => At(fs, f, i) = At(fs, P, k) + (i - k)
  BY Places
<1>7. f = P
  BY <1>1, <1>3, <1>5, <1>6
<1>8. i \in Nat /\ k \in Nat /\ i =< k
  BY <1>3, <1>4, <1>7
<1> QED
  BY <1>1, <1>3, <1>6, <1>7, <1>8

\* Without blocks L is 0.
LEMMA NothingStored ==
  ASSUME NEW L \in Nat, NEW fs, Layout(fs, L), \A f \in 1..Len(fs) : Size(fs, f) = 0
  PROVE  L = 0
<1> SUFFICES ASSUME L # 0 PROVE FALSE
  OBVIOUS
<1>1. 0 \in 0..(L - 1)
  OBVIOUS
<1>2. PICK f \in 1..Len(fs) : \E i \in 1..Size(fs, f) : At(fs, f, i) = 0
  BY <1>1 DEF Layout
<1>3. PICK i \in 1..Size(fs, f) : At(fs, f, i) = 0
  BY <1>2
<1> QED
  BY <1>3

\* The summary built from the files is exact.
LEMMA Constructed ==
  ASSUME NEW L \in 0..(MaxBlock + 1), Layout(files, L), NEW i, i = constructBlockfilesInfo
  PROVE  /\ Summary(i, files, L, 0)
         /\ i.last = IF L = 0 THEN 0 ELSE L - 1
         /\ files # << >> => i.file = Len(files)
<1> USE BlockStoreAssumption
<1>1. files \in Seq(File) /\ Len(files) \in Nat /\ L \in Nat
  BY LayoutTypes
<1>2. CASE files = << >>
  <2>1. Len(files) = 0 /\ 1..Len(files) = {}
    BY <1>2
  <2>2. L = 0
    BY <1>1, <2>1, NothingStored
  <2>3. i = [file |-> 1, size |-> 0, none |-> TRUE, last |-> 0]
    BY <2>1 DEF constructBlockfilesInfo, NoInfo
  <2> QED
    BY <1>2, <2>2, <2>3 DEF Summary, Info, Known
<1>3. CASE files # << >>
  <2>1. PICK N \in 1..Len(files) : N = Len(files) /\ N \in Nat
    BY <1>1, <1>3
  <2>2. PICK k \in Nat : k = Len(files[N].blocks) /\ k = Size(files, N)
    BY <1>1, LayoutTypes
  <2>3. files[N].blocks = << >> <=> k = 0
    <3>1. PICK b \in Seq(0..MaxBlock) : b = files[N].blocks
      BY <1>1, LayoutTypes
    <3>2. b = << >> <=> Len(b) = 0
      OBVIOUS
    <3> QED
      BY <2>2, <3>1, <3>2
  <2> DEFINE source == IF files[N].blocks = << >> /\ N > 1 THEN files[N - 1].blocks ELSE files[N].blocks
  <2>4. i = [file |-> N, size |-> k, none |-> N = 1 /\ files[N].blocks = << >>,
             last |-> IF source = << >> THEN 0 ELSE source[Len(source)]]
    BY <2>1, <2>2 DEF constructBlockfilesInfo
  <2>5. PICK l \in 0..MaxBlock : /\ i.last = l /\ (L = 0 => l = 0) /\ (L # 0 => l = L - 1)
                                 /\ (N = 1 /\ k = 0) <=> L = 0
    <3>1. i.last = IF source = << >> THEN 0 ELSE source[Len(source)]
      BY <2>4
    <3>2. CASE k >= 1
      <4>1. source = files[N].blocks /\ source # << >>
        BY <2>3, <3>2
      <4>2. k \in 1..Size(files, N) /\ \A g \in 1..Len(files) : ~(g > N)
        BY <1>1, <2>1, <2>2, <3>2
      <4>3. L >= 1 /\ At(files, N, k) = L - 1
        BY <1>1, <2>2, <4>2, LastStored
      <4>4. i.last = L - 1
        BY <2>2, <3>1, <4>1, <4>3 DEF At
      <4> QED
        BY <1>1, <3>2, <4>3, <4>4
    <3>3. CASE k = 0 /\ N = 1
      <4>1. source = << >>
        BY <2>3, <3>3
      <4>2. \A f \in 1..Len(files) : Size(files, f) = 0
        <5>1. \A f \in 1..Len(files) : f = N
          BY <2>1, <3>3
        <5> QED
          BY <2>2, <3>3, <5>1
      <4>3. L = 0
        BY <1>1, <4>2, NothingStored
      <4> QED
        BY <3>1, <3>3, <4>1, <4>3
    <3>4. CASE k = 0 /\ N > 1
      <4>1. PICK P \in 1..Len(files) : P = N - 1 /\ P < N
        BY <1>1, <2>1, <3>4, SMTT(30)
      <4>2. source = files[P].blocks
        BY <2>3, <3>4, <4>1
      <4>3. PICK q \in 1..Size(files, P) : q = Size(files, P) /\ q = Len(files[P].blocks)
        <5>1. Size(files, P) \in Nat /\ Size(files, P) >= 1 /\ Size(files, P) = Len(files[P].blocks)
          <6>1. Size(files, P) \in Nat /\ Size(files, P) = Len(files[P].blocks)
            BY <1>1, <4>1, LayoutTypes, Zenon
          <6>2. \A f \in 1..Len(files) : f < Len(files) => Size(files, f) >= 1
            BY <1>1, Zenon DEF Layout
          <6> QED
            BY <2>1, <4>1, <6>1, <6>2, Zenon
        <5> QED
          BY <5>1
      <4>4. \A g \in 1..Len(files) : g > P => Size(files, g) = 0
        <5>1. \A g \in 1..Len(files) : g > P => g = N
          BY <2>1, <4>1
        <5> QED
          BY <2>2, <3>4, <5>1
      <4>5. L >= 1 /\ At(files, P, q) = L - 1
        BY <1>1, <4>3, <4>4, LastStored
      <4>6. source # << >>
        <5>1. PICK b \in Seq(0..MaxBlock) : b = files[P].blocks
          BY <1>1, LayoutTypes
        <5>2. b # << >>
          BY <4>3, <5>1
        <5> QED
          BY <4>2, <5>1, <5>2
      <4>7. i.last = L - 1
        BY <3>1, <4>2, <4>3, <4>5, <4>6 DEF At
      <4> QED
        BY <1>1, <3>4, <4>5, <4>7
    <3> QED
      BY <2>1, <2>2, <3>2, <3>3, <3>4
  <2>6. PICK b \in BOOLEAN : b = (N = 1 /\ files[N].blocks = << >>)
    OBVIOUS
  <2>7. b <=> L = 0
    BY <2>3, <2>5, <2>6
  <2>8. i = [file |-> N, size |-> k, none |-> b, last |-> l]
    BY <2>4, <2>5, <2>6, SMTT(30)
  <2> HIDE DEF source
  <2>9. i \in Info /\ i.file = N /\ i.size = k /\ i.none = b
    BY <2>1, <2>8 DEF Info
  <2>10. Known(i) = L
    BY <1>1, <2>5, <2>7, <2>9 DEF Known
  <2>11. (i.none => i.file = 1 /\ i.size = 0 /\ i.last = 0) /\ i.size + 0 = Size(files, i.file)
    BY <2>2, <2>5, <2>7, <2>9
  <2>12. Known(i) + 0 = L /\ ~(i.file < Len(files)) /\ i.file \in 1..Len(files)
    BY <1>1, <2>1, <2>9, <2>10
  <2>13. Summary(i, files, L, 0)
    BY <2>9, <2>11, <2>12 DEF Summary
  <2> QED
    BY <2>1, <2>5, <2>9, <2>13
<1> QED
  BY <1>2, <1>3

\* The summary found on disk is exact after it was brought up to date.
LEMMA Synced ==
  ASSUME NEW L \in 0..(MaxBlock + 1), Layout(files, L),
         NEW i, Summary(i, files, L, 0) \/ Summary(i, files, L, 1),
         NEW r, r = syncBlockfilesInfoFromFS(i)
  PROVE  Summary(r, files, L, 0)
<1> USE BlockStoreAssumption
<1>1. files \in Seq(File) /\ Len(files) \in Nat /\ L \in Nat
  BY LayoutTypes
<1>2. /\ i \in Info /\ i.file \in Nat /\ i.size \in Nat /\ i.none \in BOOLEAN
      /\ i.last \in 0..MaxBlock
  BY DEF Summary, Info
<1>3. CASE Summary(i, files, L, 0)
  <2>1. r = i
    <3>1. CASE files = << >>
      <4>1. i.file > Len(files)
        BY <1>2, <1>3, <3>1 DEF Summary
      <4> QED
        BY <4>1 DEF syncBlockfilesInfoFromFS
    <3>2. CASE files # << >>
      <4>1. i.file \in 1..Len(files) /\ i.size = Size(files, i.file)
        BY <1>2, <1>3, <3>2 DEF Summary
      <4>2. ~(i.file > Len(files)) /\ Len(files[i.file].blocks) - i.size = 0
        BY <1>1, <1>2, <4>1 DEF Size
      <4> QED
        BY <4>2 DEF syncBlockfilesInfoFromFS
    <3> QED
      BY <3>1, <3>2
  <2> QED
    BY <1>3, <2>1
<1>4. CASE Summary(i, files, L, 1)
  <2>1. /\ Known(i) + 1 = L /\ i.file \in 1..Len(files) /\ i.size + 1 = Size(files, i.file)
        /\ i.none => i.file = 1 /\ i.size = 0 /\ i.last = 0
        /\ i.file < Len(files) =>
             /\ i.file + 1 = Len(files) /\ files[Len(files)] = NoFile
             /\ L =< MaxBlock /\ FileSize(files[i.file].blocks) + BlockSize[L] > MaxFileSize
    BY <1>4 DEF Summary
  <2>2. ~(i.file > Len(files)) /\ Len(files[i.file].blocks) - i.size = 1
    BY <1>1, <1>2, <2>1 DEF Size
  <2>3. PICK l \in 0..MaxBlock : l = IF i.none THEN 1 - 1 ELSE i.last + 1
    BY <1>2, <2>1 DEF Known
  <2>4. r = [i EXCEPT !.size = i.size + 1, !.last = l, !.none = FALSE]
    <3> DEFINE num == Len(files[i.file].blocks) - i.size
    <3>1. r = IF num = 0 THEN i
              ELSE [i EXCEPT !.size = i.size + num,
                             !.last = IF i.none THEN num - 1 ELSE i.last + num,
                             !.none = FALSE]
      BY <2>2 DEF syncBlockfilesInfoFromFS
    <3>2. num = 1
      BY <2>2
    <3> HIDE DEF num
    <3> QED
      BY <2>3, <3>1, <3>2
  <2>5. r = [file |-> i.file, size |-> i.size + 1, none |-> FALSE, last |-> l]
    BY <1>2, <2>4 DEF Info
  <2>6. r \in Info /\ r.file = i.file /\ r.size = i.size + 1 /\ ~r.none /\ r.last = l
    <3>1. i.size + 1 \in Nat
      BY <1>2
    <3> QED
      BY <1>2, <2>5, <3>1 DEF Info
  <2>7. Known(r) = L
    BY <1>2, <2>1, <2>3, <2>6 DEF Known
  <2> QED
    BY <1>1, <1>2, <2>1, <2>6, <2>7 DEF Summary
<1> QED
  BY <1>3, <1>4

-----------------------------------------------------------------------------
(* Initial state and opening. *)

\* An iterator is not disturbed when files and summary grow.
LEMMA ItrGrows ==
  ASSUME NEW it \in Iterator, NEW fs, NEW gs, NEW m \in Info, NEW r \in Info, ItrFits(it, fs, m),
         Extends(gs, fs), Len(fs) \in Nat, Len(gs) \in Nat, ~r.none, m.last =< r.last
  PROVE  ItrFits(it, gs, r)
<1>1. it.avail =< r.last
  BY BlockStoreAssumption DEF ItrFits, Iterator, Info
<1>2. CASE it.loc = NoLoc /\ it.got = None
  BY <1>1, <1>2 DEF ItrFits
<1>3. CASE /\ it.got = it.next - 1
           /\ it.loc.file \in 1..Len(fs)
           /\ it.loc.pos \in 1..Size(fs, it.loc.file)
           /\ At(fs, it.loc.file, it.loc.pos) = it.next - 1
  <2>1. /\ it.loc.pos \in 1..Size(gs, it.loc.file)
        /\ At(gs, it.loc.file, it.loc.pos) = At(fs, it.loc.file, it.loc.pos)
        /\ it.loc.file \in 1..Len(gs)
    BY <1>3 DEF Extends
  <2> QED
    BY <1>1, <1>3, <2>1 DEF ItrFits
<1> QED
  BY <1>2, <1>3 DEF ItrFits

\* Files extend themselves.
LEMMA ExtendsRefl ==
  ASSUME NEW fs, Len(fs) \in Nat
  PROVE  Extends(fs, fs)
BY DEF Extends

\* No iterator is open while the store is closed or being opened.
LEMMA NoItrClosed ==
  ASSUME ItrOK, pc \notin Serving
  PROVE  itr = NoItr
BY DEF ItrOK

\* No summary is a summary, no iterator is an iterator.
LEMMA NoneTyped == NoInfo \in Info /\ NoItr \in Iterator
<1>1. 0 \in 0..MaxBlock
  BY BlockStoreAssumption
<1>2. NoInfo \in Info
  BY <1>1 DEF Info, NoInfo
<1>3. NoLoc \in Location
  BY DEF Location, NoLoc
<1>4. NoItr \in Iterator
  BY <1>1, <1>3 DEF Iterator, NoItr, None
<1> QED
  BY <1>2, <1>4

\* A store that was just created.
LEMMA InitInv ==
  ASSUME Init, FirstBlock = 0
  PROVE  Inv(0)
<1> USE BlockStoreAssumption
<1>1. /\ files = << >> /\ Len(files) = 0 /\ 1..Len(files) = {} /\ 0..(0 - 1) = {} /\ 0..(-1) = {}
      /\ info = NoInfo /\ mem = NoInfo /\ savepoint = -1 /\ DOMAIN index = {}
      /\ preReset = 0 /\ height = 0 /\ reject = FALSE /\ itr = NoItr /\ pc = "down"
      /\ target = 0 /\ beginFile = 1 /\ endFile = 1 /\ peak = 0
  BY DEF Init, Absent
<1>2. files \in Seq(File)
  BY <1>1
<1>3. Layout(files, 0)
  BY <1>1, <1>2 DEF Layout
<1>4. Indexed(index, savepoint, files, 0)
  BY <1>1 DEF Indexed
<1>5. DiskOK(0)
  BY <1>1, <1>3, <1>4 DEF DiskOK
<1>6. Typed
  <2>1. 0 \in 0..MaxBlock /\ 0 \in 0..(MaxBlock + 1)
    OBVIOUS
  <2> QED
    BY <1>1, <2>1, NoneTyped DEF Typed, Empty
<1>7. /\ OpeningOK(0) /\ BeforeAppend(0) /\ AfterAppend(0) /\ RollbackOK(0) /\ ResetOK
      /\ RecordOK(0) /\ ItrOK
  BY <1>1 DEF OpeningOK, BeforeAppend, AfterAppend, RollbackOK, ResetOK, RecordOK, ItrOK,
     Opening, Serving, Adding
<1> QED
  BY <1>5, <1>6, <1>7 DEF Inv

\* What holds of the closed store.
LEMMA DownInv ==
  ASSUME NEW M \in Nat, DiskOK(M)', Typed', pc' = "down", itr' = NoItr,
         M >= peak' \/ preReset' >= peak'
  PROVE  Inv(M)'
BY DEF Inv, OpeningOK, BeforeAppend, AfterAppend, RollbackOK, ResetOK, RecordOK, ItrOK,
   Opening, Serving, Adding

\* The same while it is opened.
LEMMA OpeningInv ==
  ASSUME NEW M \in Nat, DiskOK(M)', Typed', pc' \in Opening, OpeningOK(M)', itr' = NoItr,
         M >= peak' \/ preReset' >= peak'
  PROVE  Inv(M)'
BY DEF Inv, BeforeAppend, AfterAppend, RollbackOK, ResetOK, RecordOK, ItrOK,
   Opening, Serving, Adding

\* The summary is loaded or built, and saved.
LEMMA LoadInfoStep ==
  ASSUME NEW L \in Nat, Inv(L), LoadInfo
  PROVE  Inv(L)'
<1> USE DEF Inv
<1>1. /\ pc = "down" /\ pc' = "openFile" /\ info' = mem'
      /\ UNCHANGED <<files, index, savepoint, preReset, height, reject, itr, cmd, peak>>
  BY DEF LoadInfo
<1>2. L \in 0..(MaxBlock + 1) /\ Layout(files, L) /\ Indexed(index, savepoint, files, L)
  BY DEF DiskOK
<1>3. PICK i : i = mem'
  OBVIOUS
<1>4. Summary(i, files, L, 0)
  <2>1. CASE info = NoInfo
    <3>1. i = constructBlockfilesInfo
      BY <1>3, <2>1 DEF LoadInfo
    <3> QED
      BY <1>2, <3>1, Constructed
  <2>2. CASE info # NoInfo
    <3>1. i = syncBlockfilesInfoFromFS(info)
      BY <1>3, <2>2 DEF LoadInfo
    <3>2. PICK k : k = info
      OBVIOUS
    <3>3. Summary(k, files, L, 0) \/ Summary(k, files, L, 1)
      BY <2>2, <3>2 DEF DiskOK
    <3> QED
      BY <1>2, <3>1, <3>2, <3>3, Synced
  <2> QED
    BY <2>1, <2>2
<1>5. Summary(mem, files, L, 0)' /\ Summary(info, files, L, 0)'
  BY <1>1, <1>3, <1>4 DEF Summary
<1>6. mem' \in Info /\ info' \in Info
  BY <1>5 DEF Summary
<1>7. DiskOK(L)'
  BY <1>1, <1>2, <1>5 DEF DiskOK
<1>8. Typed'
  BY <1>1, <1>6 DEF Typed, Opening, cmd
<1>9. OpeningOK(L)'
  BY <1>1, <1>5 DEF OpeningOK
<1>10. itr' = NoItr /\ (L >= peak' \/ preReset' >= peak')
  BY <1>1, NoItrClosed DEF RecordOK, Serving, Adding
<1> QED
  BY <1>1, <1>7, <1>8, <1>9, <1>10, OpeningInv DEF Opening

\* What syncIndex finds when the last file is open.
LEMMA SyncPC ==
  ASSUME NEW L \in 0..(MaxBlock + 1), FirstBlock = 0, NEW fs, Layout(fs, L), fs # << >>,
         Summary(mem, fs, L, 0), -1 =< savepoint, savepoint \in Int
  PROVE  /\ SyncIndexPC(fs) \in {"syncIndex", "header"}
         /\ SyncIndexPC(fs) = "syncIndex" => ~mem.none
         /\ SyncIndexPC(fs) = "header" => mem.none \/ savepoint = mem.last
<1>1. ~mem.none => fs[1].blocks # << >>
  <2> SUFFICES ASSUME ~mem.none, fs[1].blocks = << >> PROVE FALSE
    OBVIOUS
  <2>1. fs \in Seq(File) /\ Len(fs) \in Nat /\ Size(fs, 1) = 0 /\ L \in Nat
    BY LayoutTypes, BlockStoreAssumption DEF Size
  <2>2. Len(fs) = 1
    <3>1. 1 \in 1..Len(fs)
      BY <2>1
    <3>2. ~(1 < Len(fs))
      BY <2>1, <3>1 DEF Layout
    <3>3. \A n \in Nat : 1 \in 1..n /\ ~(1 < n) => n = 1
      OBVIOUS
    <3> QED
      BY <2>1, <3>1, <3>2, <3>3
  <2>3. \A f \in 1..Len(fs) : Size(fs, f) = 0
    BY <2>1, <2>2
  <2>4. L = 0
    BY <2>1, <2>3, NothingStored
  <2>5. mem.last + 1 = L /\ mem.last \in Nat
    BY <2>4, BlockStoreAssumption DEF Summary, Known, Info
  <2> QED
    BY <2>4, <2>5
<1>2. ~(savepoint = None /\ bootstrappedFromSnapshot)
  BY DEF bootstrappedFromSnapshot
<1> QED
  BY <1>1, <1>2 DEF SyncIndexPC

\* A file in which the summary knows every block.
LEMMA SummaryFile ==
  ASSUME NEW L \in 0..(MaxBlock + 1), NEW fs, Layout(fs, L), fs # << >>,
         NEW i, Summary(i, fs, L, 0)
  PROVE  /\ i \in Info /\ i.file \in 1..Len(fs) /\ i.size = Size(fs, i.file)
         /\ i.file \in Nat /\ i.size \in Nat /\ Size(fs, i.file) = Len(fs[i.file].blocks)
         /\ Len(fs) \in Nat /\ i.none \in BOOLEAN /\ i.last \in 0..MaxBlock
         /\ i.none => L = 0
         /\ ~i.none => L = i.last + 1
         /\ \A f \in 1..Len(fs) : f > i.file => Size(fs, f) = 0
         /\ SubSeq(fs[i.file].blocks, 1, i.size) = fs[i.file].blocks
<1>1. /\ i \in Info /\ i.file \in 1..Len(fs) /\ i.size + 0 = Size(fs, i.file)
      /\ i.file < Len(fs) => i.file + 1 = Len(fs) /\ fs[Len(fs)] = NoFile
      /\ Known(i) + 0 = L
  BY DEF Summary
<1>2. /\ i.file \in Nat /\ i.size \in Nat /\ i.none \in BOOLEAN /\ i.last \in 0..MaxBlock
      /\ i.last \in Nat
  BY <1>1, BlockStoreAssumption DEF Info
<1>3. L \in Nat /\ Len(fs) \in Nat
  BY LayoutTypes, BlockStoreAssumption
<1>4. PICK b \in Seq(0..MaxBlock) : b = fs[i.file].blocks /\ Size(fs, i.file) = Len(b)
  BY <1>1, <1>3, LayoutTypes
<1>5. i.size = Len(b)
  BY <1>1, <1>2, <1>4
<1>6. SubSeq(b, 1, Len(b)) = b
  OBVIOUS
<1>7. ASSUME NEW f \in 1..Len(fs), f > i.file PROVE Size(fs, f) = 0
  <2>1. f = Len(fs) /\ fs[Len(fs)] = NoFile
    BY <1>1, <1>2, <1>3, <1>7
  <2> QED
    BY <2>1 DEF Size, NoFile
<1>8. (i.none => L = 0) /\ (~i.none => L = i.last + 1)
  BY <1>1, <1>2, <1>3 DEF Known
<1> QED
  BY <1>1, <1>2, <1>3, <1>4, <1>5, <1>6, <1>7, <1>8

\* The last file is opened, and loses its torn block.
LEMMA OpenFileStep ==
  ASSUME NEW L \in Nat, Inv(L), FirstBlock = 0, OpenFile
  PROVE  Inv(L)'
<1> USE DEF Inv
<1>1. /\ pc = "openFile" /\ UNCHANGED <<db, preReset, mem, height, reject, itr, cmd, peak>>
      /\ pc' = SyncIndexPC(files')
      /\ files' = IF mem.file > Len(files) THEN Append(files, NoFile)
                  ELSE [files EXCEPT ![mem.file] =
                          [blocks |-> SubSeq(files[mem.file].blocks, 1, mem.size), torn |-> FALSE]]
  BY DEF OpenFile
<1>2. /\ L \in 0..(MaxBlock + 1) /\ Layout(files, L) /\ Indexed(index, savepoint, files, L)
      /\ mem = info /\ Summary(mem, files, L, 0)
  BY <1>1 DEF DiskOK, OpeningOK, Opening
<1>3. PICK fs : fs = files
  OBVIOUS
<1>4. PICK gs : gs = files'
  OBVIOUS
<1>5. PICK i : i = mem
  OBVIOUS
<1>6. fs \in Seq(File) /\ Len(fs) \in Nat /\ Layout(fs, L) /\ Summary(i, fs, L, 0)
  BY <1>2, <1>3, <1>5, LayoutTypes
<1>7. Layout(gs, L) /\ Untorn(gs) /\ Extends(gs, fs) /\ Summary(i, gs, L, 0)
  <2>1. CASE fs = << >>
    <3>1. i.none /\ i.file = 1 /\ i.size = 0 /\ i \in Info /\ Known(i) + 0 = L /\ i.last = 0 /\ Len(fs) = 0
      BY <1>6, <2>1 DEF Summary
    <3>2. gs = Append(fs, NoFile)
      BY <1>1, <1>3, <1>4, <1>5, <3>1
    <3>3. /\ Layout(gs, L) /\ Len(gs) = Len(fs) + 1 /\ Untorn(gs) /\ Extends(gs, fs)
          /\ Size(gs, Len(gs)) = 0
      BY <1>6, <2>1, <3>2, NewFile
    <3>4. Summary(i, gs, L, 0)
      BY <3>1, <3>3 DEF Summary
    <3> QED
      BY <3>3, <3>4
  <2>2. CASE fs # << >>
    <3>1. /\ i \in Info /\ i.file \in 1..Len(fs) /\ i.size = Size(fs, i.file)
          /\ i.file \in Nat /\ Size(fs, i.file) = Len(fs[i.file].blocks)
          /\ SubSeq(fs[i.file].blocks, 1, i.size) = fs[i.file].blocks
      BY <1>2, <1>6, <2>2, SummaryFile
    <3>2. PICK e : e = [blocks |-> fs[i.file].blocks, torn |-> FALSE]
      OBVIOUS
    <3>3. gs = [fs EXCEPT ![i.file] = e]
      <4>1. ~(i.file > Len(fs))
        BY <1>6, <3>1
      <4>2. gs = [fs EXCEPT ![i.file] =
                    [blocks |-> SubSeq(fs[i.file].blocks, 1, i.size), torn |-> FALSE]]
        BY <1>1, <1>3, <1>4, <1>5, <4>1
      <4> QED
        BY <3>1, <3>2, <4>2
    <3>4. e \in File /\ e.blocks = fs[i.file].blocks /\ ~e.torn
      BY <1>6, <3>1, <3>2, LayoutTypes DEF File
    <3>5. CASE i.file = Len(fs)
      <4>1. SameBefore(gs, fs) /\ gs[Len(fs)] = e
        BY <1>6, <2>2, <3>3, <3>4, <3>5, ReplaceLast
      <4>2. gs[Len(fs)].blocks = fs[Len(fs)].blocks
        BY <3>4, <3>5, <4>1
      <4>3. /\ Layout(gs, L) /\ Extends(gs, fs) /\ Len(gs) = Len(fs) /\ gs # << >>
            /\ \A f \in 1..Len(fs) : gs[f].blocks = fs[f].blocks /\ Size(gs, f) = Size(fs, f)
        BY <1>6, <4>1, <4>2, SameBlocks
      <4>4. Untorn(gs)
        BY <3>4, <4>1, <4>3 DEF Untorn
      <4>5. Summary(i, gs, L, 0)
        <5>1. i.size + 0 = Size(gs, i.file) /\ i.file \in 1..Len(gs) /\ ~(i.file < Len(gs))
          BY <1>6, <3>1, <3>5, <4>3 DEF Info
        <5> QED
          BY <1>6, <5>1 DEF Summary
      <4> QED
        BY <4>3, <4>4, <4>5
    <3>6. CASE i.file < Len(fs)
      <4>1. fs[i.file] = e
        <5>1. ~fs[i.file].torn /\ fs[i.file] \in File
          BY <1>6, <3>1, <3>6, LayoutTypes DEF Layout
        <5> QED
          BY <3>2, <5>1 DEF File
      <4>2. gs = fs
        BY <1>6, <3>1, <3>3, <4>1
      <4>3. fs[Len(fs)] = NoFile
        BY <1>6, <2>2, <3>6 DEF Summary
      <4>4. Untorn(fs)
        BY <2>2, <4>3 DEF Untorn, NoFile
      <4> QED
        BY <1>6, <4>2, <4>4, ExtendsRefl
    <3> QED
      BY <1>6, <3>1, <3>5, <3>6
  <2> QED
    BY <2>1, <2>2
<1>8. Len(gs) \in Nat /\ gs # << >>
  BY <1>7, LayoutTypes DEF Untorn
<1>9. Indexed(index, savepoint, gs, L)
  <2>1. Indexed(index, savepoint, fs, L)
    BY <1>2, <1>3
  <2>2. PICK idx : idx = index
    OBVIOUS
  <2>3. PICK sp : sp = savepoint
    OBVIOUS
  <2>4. Indexed(idx, sp, gs, L)
    BY <1>6, <1>7, <1>8, <2>1, <2>2, <2>3, IndexedGrows
  <2> QED
    BY <2>2, <2>3, <2>4
<1>10. DiskOK(L)'
  BY <1>1, <1>2, <1>4, <1>5, <1>7, <1>9 DEF DiskOK, db
<1>11. /\ SyncIndexPC(gs) \in {"syncIndex", "header"}
       /\ SyncIndexPC(gs) = "syncIndex" => ~mem.none
       /\ SyncIndexPC(gs) = "header" => mem.none \/ savepoint = mem.last
  BY <1>2, <1>5, <1>7, <1>8, SyncPC DEF Indexed
<1>12. OpeningOK(L)'
  BY <1>1, <1>2, <1>4, <1>5, <1>7, <1>11 DEF OpeningOK, db
<1>13. Typed'
  BY <1>1, <1>4, <1>11 DEF Typed, Opening, cmd, db
<1>14. itr' = NoItr /\ (L >= peak' \/ preReset' >= peak') /\ pc' \in Opening
  BY <1>1, <1>4, <1>11, NoItrClosed DEF RecordOK, Serving, Adding, Opening
<1> QED
  BY <1>10, <1>12, <1>13, <1>14, OpeningInv

\* Block 0 is the first one of the first file.
LEMMA FirstStored ==
  ASSUME NEW L \in Nat, L >= 1, NEW fs, Layout(fs, L)
  PROVE  1 \in 1..Len(fs) /\ 1 \in 1..Size(fs, 1) /\ At(fs, 1, 1) = 0
<1>1. Len(fs) \in Nat
  BY LayoutTypes
<1>2. PICK f \in 1..Len(fs) : \E i \in 1..Size(fs, f) : At(fs, f, i) = 0
  <2>1. 0 \in 0..(L - 1)
    OBVIOUS
  <2> QED
    BY <2>1 DEF Layout
<1>3. PICK i \in 1..Size(fs, f) : At(fs, f, i) = 0
  BY <1>2
<1>4. 1 \in 1..Len(fs)
  BY <1>1
<1>5. PICK g \in 1..Len(fs) : g = 1
  BY <1>4
<1>6. Size(fs, g) \in Nat /\ Size(fs, f) \in Nat
  BY <1>1, LayoutTypes
<1>7. PICK j \in 1..Size(fs, g) : j = 1
  <2>1. CASE f = g
    BY <1>6, <2>1
  <2>2. CASE f # g
    <3>1. g < Len(fs)
      BY <1>1, <1>5, <2>2
    <3>2. Size(fs, g) >= 1
      BY <3>1 DEF Layout
    <3> QED
      BY <1>6, <3>2
  <2> QED
    BY <2>1, <2>2
<1>8. /\ At(fs, f, i) \in 0..(L - 1) /\ At(fs, g, j) \in 0..(L - 1)
      /\ g < f => At(fs, g, j) < At(fs, f, i)
      /\ g = f => At(fs, g, j) = At(fs, f, i) + (j - i)
  BY Places
<1>9. At(fs, g, j) = 0
  BY <1>1, <1>3, <1>5, <1>6, <1>7, <1>8
<1> QED
  BY <1>4, <1>5, <1>7, <1>9

\* Where syncIndex goes on: before the block behind the savepoint.
LEMMA SyncFromPrecedes ==
  ASSUME NEW L \in Nat, L >= 1, Layout(files, L), Indexed(index, savepoint, files, L),
         NEW sp \in Nat, sp = savepoint + 1
  PROVE  \E loc : Precedes(loc, files, sp) /\ SyncFrom = StreamNext(loc, mem.file)
<1>1. 1 \in 1..Len(files) /\ files[1].blocks[1] = 0 /\ Len(files) \in Nat
  BY FirstStored, LayoutTypes DEF At
<1>2. savepoint \in Int /\ -1 =< savepoint
  BY DEF Indexed
<1>3. CASE savepoint = -1
  <2>1. ~(savepoint + 1 > files[1].blocks[1])
    BY <1>1, <1>3
  <2>2. SyncFrom = StreamNext([file |-> 1, pos |-> 0], mem.file)
    BY <2>1 DEF SyncFrom
  <2>3. Precedes([file |-> 1, pos |-> 0], files, sp)
    BY <1>1, <1>3 DEF Precedes
  <2> QED
    BY <2>2, <2>3
<1>4. CASE savepoint >= 0
  <2>1. savepoint + 1 > files[1].blocks[1]
    BY <1>1, <1>2, <1>4
  <2>2. SyncFrom = StreamNext(After(index[savepoint]), mem.file)
    BY <2>1 DEF SyncFrom
  <2>3. savepoint \in 0..savepoint
    BY <1>2, <1>4
  <2>4. PICK l : l = index[savepoint]
    OBVIOUS
  <2>5. Locates(l, files, savepoint)
    BY <2>3, <2>4 DEF Indexed
  <2>6. PICK f \in Nat, p \in Nat : l = [file |-> f, pos |-> p]
    BY <2>5 DEF Locates, Location
  <2>7. After(l) = [file |-> f, pos |-> p + 1]
    BY <2>6 DEF After
  <2>8. /\ f \in 1..Len(files) /\ p + 1 \in 1..Size(files, f)
        /\ At(files, f, p + 1) = savepoint
    BY <2>5, <2>6 DEF Locates
  <2>9. After(l) \in Location /\ After(l).file = f /\ After(l).pos = p + 1
    <3>1. p + 1 \in Nat
      BY <2>6
    <3> QED
      BY <2>6, <2>7, <3>1 DEF Location
  <2>10. savepoint = sp - 1
    BY <1>2
  <2>11. Precedes(After(l), files, sp)
    BY <2>8, <2>9, <2>10 DEF Precedes
  <2> QED
    BY <2>2, <2>4, <2>11
<1> QED
  BY <1>2, <1>3, <1>4

\* The next block is indexed.
LEMMA IndexedNext ==
  ASSUME NEW L \in Nat, NEW fs, Layout(fs, L), NEW idx, NEW sp, Indexed(idx, sp, fs, L),
         NEW n, n = sp + 1, n < L, NEW loc, Locates(loc, fs, n),
         NEW jdx, jdx = [b \in DOMAIN idx \cup {n} |-> IF b = n THEN loc ELSE idx[b]]
  PROVE  Indexed(jdx, n, fs, L)
<1>1. sp \in Int /\ -1 =< sp /\ DOMAIN idx = 0..sp /\ n \in Int /\ -1 =< n
  BY DEF Indexed
<1>2. DOMAIN jdx = 0..n
  BY <1>1
<1>3. ASSUME NEW b \in 0..n PROVE Locates(jdx[b], fs, b)
  <2>1. CASE b = n
    BY <1>1, <2>1
  <2>2. CASE b # n
    <3>1. b \in 0..sp /\ jdx[b] = idx[b]
      BY <1>1, <2>2
    <3> QED
      BY <3>1 DEF Indexed
  <2> QED
    BY <2>1, <2>2
<1> QED
  BY <1>1, <1>2, <1>3 DEF Indexed

\* One block is indexed, or all are.
LEMMA SyncIndexStep ==
  ASSUME NEW L \in Nat, Inv(L), SyncIndex
  PROVE  Inv(L)'
<1>1. /\ pc = "syncIndex"
      /\ UNCHANGED <<files, info, preReset, mem, height, reject, itr, cmd, peak>>
  BY DEF SyncIndex
<1>2. /\ L \in 0..(MaxBlock + 1) /\ Layout(files, L) /\ Indexed(index, savepoint, files, L)
      /\ mem = info /\ Summary(mem, files, L, 0) /\ Untorn(files) /\ ~mem.none /\ Typed
  BY <1>1 DEF Inv, DiskOK, OpeningOK, Opening
<1>3. PICK i : i = mem
  OBVIOUS
<1>4. i.file \in 1..Len(files) /\ L = i.last + 1 /\ i.last \in Nat /\ Len(files) \in Nat
      /\ \A f \in 1..Len(files) : f > i.file => Size(files, f) = 0
  <2>1. files # << >> /\ Summary(i, files, L, 0) /\ ~i.none
    BY <1>2, <1>3 DEF Untorn
  <2> QED
    BY <1>2, <2>1, SummaryFile, BlockStoreAssumption
<1>5. savepoint \in Int /\ -1 =< savepoint /\ savepoint < L
  BY <1>2 DEF Indexed
<1>6. PICK n \in Nat : n = savepoint + 1
  BY <1>5
<1>7. PICK loc : Precedes(loc, files, n) /\ SyncFrom = StreamNext(loc, i.file)
  BY <1>2, <1>3, <1>4, <1>6, SyncFromPrecedes
<1>8. PICK to : to = SyncFrom
  OBVIOUS
<1>9. pc' \in Opening /\ Indexed(index, savepoint, files, L)' /\ pc' # "openFile"
      /\ (pc' = "header" => savepoint' = mem.last) /\ pc' \in {"header", "syncIndex"}
  <2>1. CASE n = L
    <3>1. SyncFrom = NoLoc
      BY <1>2, <1>4, <1>7, <2>1, StreamEnds
    <3>2. pc' = "header" /\ UNCHANGED <<index, savepoint>>
      BY <3>1 DEF SyncIndex
    <3>3. savepoint = i.last
      BY <1>4, <1>5, <1>6, <2>1
    <3> QED
      BY <1>1, <1>2, <1>3, <3>2, <3>3 DEF Opening
  <2>2. CASE n # L
    <3>1. n \in 0..(L - 1)
      BY <1>5, <1>6, <2>2
    <3>2. Locates(to, files, n) /\ to \notin {NoLoc, TornLoc}
      BY <1>2, <1>4, <1>7, <1>8, <3>1, StreamFinds
    <3>3. BlockAt(to) = n
      BY <3>2 DEF Locates, BlockAt, At
    <3>4. IndexBlock(n, to) /\ pc' = pc
      BY <1>8, <3>2, <3>3 DEF SyncIndex
    <3>5. PICK jdx : jdx = index' /\ jdx = [b \in DOMAIN index \cup {n} |-> IF b = n THEN to ELSE index[b]]
      BY <3>4 DEF IndexBlock
    <3>6. savepoint' = n /\ n < L
      BY <3>1, <3>4 DEF IndexBlock
    <3>7. Indexed(jdx, n, files, L)
      <4>1. PICK idx : idx = index
        OBVIOUS
      <4>2. PICK sp : sp = savepoint
        OBVIOUS
      <4> QED
        BY <1>2, <1>6, <3>2, <3>5, <3>6, <4>1, <4>2, IndexedNext
    <3> QED
      BY <1>1, <3>4, <3>5, <3>6, <3>7 DEF Opening
  <2> QED
    BY <2>1, <2>2
<1>10. DiskOK(L)'
  BY <1>1, <1>2, <1>9 DEF DiskOK, Inv
<1>11. OpeningOK(L)'
  BY <1>1, <1>2, <1>9 DEF OpeningOK
<1>12. Typed'
  BY <1>1, <1>2, <1>9 DEF Typed, cmd
<1>13. itr' = NoItr /\ (L >= peak' \/ preReset' >= peak')
  BY <1>1, NoItrClosed DEF Inv, RecordOK, Serving, Adding
<1> QED
  BY <1>9, <1>10, <1>11, <1>12, <1>13, OpeningInv

\* The greater of two numbers.
LEMMA MaxTwo ==
  ASSUME NEW a \in Int, NEW b \in Int
  PROVE  Max({a, b}) = IF a >= b THEN a ELSE b
<1>1. \E m \in {a, b} : \A y \in {a, b} : m >= y
  OBVIOUS
<1>2. Max({a, b}) \in {a, b} /\ \A y \in {a, b} : Max({a, b}) >= y
  BY <1>1 DEF Max
<1> QED
  BY <1>2

\* What holds between two blocks and until the next one is in the file.
LEMMA BeforeInv ==
  ASSUME NEW M \in Nat, DiskOK(M)', Typed', pc' \in {"idle", "nextFile", "saveNext", "append"},
         BeforeAppend(M)', RecordOK(M)', ItrOK'
  PROVE  Inv(M)'
BY DEF Inv, OpeningOK, AfterAppend, RollbackOK, ResetOK, Opening

\* What holds until its height is reported.
LEMMA AfterInv ==
  ASSUME NEW M \in Nat, DiskOK(M)', Typed', pc' \in {"save", "index", "publish", "height"},
         AfterAppend(M)', RecordOK(M)', ItrOK'
  PROVE  Inv(M)'
BY DEF Inv, OpeningOK, BeforeAppend, RollbackOK, ResetOK, Opening

\* What holds while a command works on the closed store.
LEMMA OfflineInv ==
  ASSUME NEW M \in Nat, DiskOK(M)', Typed', pc' \in Offline, itr' = NoItr,
         RollbackOK(M)', ResetOK', RecordOK(M)'
  PROVE  Inv(M)'
BY DEF Inv, OpeningOK, BeforeAppend, AfterAppend, ItrOK, Opening, Offline

\* The store is open.
LEMMA LoadHeaderStep ==
  ASSUME NEW L \in Nat, Inv(L), FirstBlock = 0, LoadHeader
  PROVE  Inv(L)'
<1>1. pc = "header" /\ UNCHANGED <<disk, mem, itr, cmd>>
  BY DEF LoadHeader
<1>2. /\ L \in 0..(MaxBlock + 1) /\ Layout(files, L) /\ Indexed(index, savepoint, files, L)
      /\ mem = info /\ Summary(mem, files, L, 0) /\ Untorn(files) /\ Typed /\ DiskOK(L)
      /\ mem.none \/ savepoint = mem.last
  BY <1>1 DEF Inv, DiskOK, OpeningOK, Opening
<1>3. PICK i : i = mem
  OBVIOUS
<1>4. /\ (i.none => L = 0) /\ (~i.none => L = i.last + 1) /\ i.last \in Nat
  <2>1. files # << >> /\ Summary(i, files, L, 0)
    BY <1>2, <1>3 DEF Untorn
  <2> QED
    BY <1>2, <2>1, SummaryFile, BlockStoreAssumption
<1>5. savepoint \in Int /\ -1 =< savepoint /\ savepoint < L /\ DOMAIN index = 0..savepoint
  BY <1>2 DEF Indexed
<1>6. savepoint = L - 1
  BY <1>2, <1>3, <1>4, <1>5
<1>7. ~mem.none => mem.last >= FirstBlock /\ mem.last \in DOMAIN index /\ IsBlock(index[mem.last])
  <2> SUFFICES ASSUME ~mem.none
               PROVE  mem.last >= FirstBlock /\ mem.last \in DOMAIN index /\ IsBlock(index[mem.last])
    OBVIOUS
  <2>1. mem.last \in 0..savepoint /\ mem.last >= FirstBlock
    BY <1>2, <1>3, <1>4
  <2>2. PICK loc : loc = index[mem.last]
    OBVIOUS
  <2>3. Locates(loc, files, mem.last)
    BY <1>2, <2>1, <2>2 DEF Indexed
  <2>4. loc.file \in 1..Len(files) /\ loc.pos + 1 \in 1..Size(files, loc.file) /\ loc.pos \in Nat
    BY <2>3 DEF Locates, Location
  <2>5. Size(files, loc.file) \in Nat /\ Size(files, loc.file) = Len(files[loc.file].blocks)
    BY <1>2, <2>4, LayoutTypes
  <2>6. IsBlock(loc)
    BY <2>4, <2>5 DEF IsBlock
  <2> QED
    BY <1>5, <2>1, <2>2, <2>6
<1>8. itr' = NoItr /\ (L >= peak \/ preReset >= peak)
  BY <1>1, NoItrClosed DEF Inv, RecordOK, Serving, Adding
<1>9. DiskOK(L)'
  BY <1>1, <1>2 DEF DiskOK, disk
<1>10. CASE preReset = Empty
  <2>1. pc' = "down" /\ UNCHANGED <<height, reject, peak>>
    BY <1>7, <1>10 DEF LoadHeader
  <2>2. Typed'
    BY <1>1, <1>2, <2>1 DEF Typed, disk, cmd
  <2>3. L >= peak' \/ preReset' >= peak'
    BY <1>1, <1>8, <2>1 DEF disk
  <2> QED
    BY <1>8, <1>9, <2>1, <2>2, <2>3, DownInv
<1>11. CASE preReset # Empty
  <2>1. /\ pc' = "idle" /\ height' = IF mem.none THEN FirstBlock ELSE mem.last + 1
        /\ reject' = (preReset # Absent) /\ peak' = Max({peak, height'})
    BY <1>7, <1>11 DEF LoadHeader
  <2>2. height' = L
    BY <1>3, <1>4, <2>1
  <2>3. peak \in 0..(MaxBlock + 1) /\ preReset \in 0..(MaxBlock + 1) /\ MaxBlock \in Nat
    BY <1>2, <1>11, BlockStoreAssumption DEF Typed
  <2>4. peak' = IF peak >= L THEN peak ELSE L
    BY <2>1, <2>2, <2>3, MaxTwo
  <2>5. Typed'
    <3>1. height' \in 0..(MaxBlock + 1) /\ peak' \in 0..(MaxBlock + 1) /\ reject' \in BOOLEAN
      BY <1>2, <2>1, <2>2, <2>3, <2>4
    <3> QED
      BY <1>1, <1>2, <2>1, <3>1 DEF Typed, disk, cmd, Serving
  <2>6. BeforeAppend(L)'
    BY <1>1, <1>2, <1>6, <2>1, <2>2 DEF BeforeAppend, disk
  <2>7. RecordOK(L)'
    <3>1. height' >= peak' \/ preReset' >= peak'
      BY <1>1, <1>8, <2>2, <2>3, <2>4 DEF disk
    <3>2. preReset' # Empty /\ (~reject' => preReset' = Absent)
      BY <1>1, <1>11, <2>1 DEF disk
    <3> QED
      BY <2>1, <3>1, <3>2 DEF RecordOK, Serving
  <2> QED
    BY <1>8, <1>9, <2>1, <2>5, <2>6, <2>7, BeforeInv DEF ItrOK
<1> QED
  BY <1>10, <1>11

-----------------------------------------------------------------------------
(* Adding a block. *)

\* What is known before the block is in the file.
LEMMA BeforeFacts ==
  ASSUME NEW L \in Nat, Inv(L), pc \in {"idle", "nextFile", "saveNext", "append"},
         NEW i, i = mem
  PROVE  /\ L \in 0..(MaxBlock + 1) /\ Layout(files, L) /\ Indexed(index, savepoint, files, L)
         /\ DiskOK(L) /\ Typed /\ ItrOK /\ RecordOK(L) /\ BeforeAppend(L)
         /\ i = info /\ Summary(i, files, L, 0) /\ Untorn(files) /\ files # << >>
         /\ height = L /\ savepoint = L - 1
         /\ i \in Info /\ i.file \in 1..Len(files) /\ i.size = Size(files, i.file)
         /\ Len(files) \in Nat /\ i.file \in Nat /\ i.size \in Nat /\ i.last \in 0..MaxBlock
         /\ (i.none => L = 0) /\ (~i.none => L = i.last + 1)
         /\ height >= peak \/ preReset >= peak
<1>1. /\ L \in 0..(MaxBlock + 1) /\ Layout(files, L) /\ Indexed(index, savepoint, files, L)
      /\ DiskOK(L) /\ Typed /\ ItrOK /\ RecordOK(L) /\ BeforeAppend(L)
      /\ i = info /\ Summary(i, files, L, 0) /\ Untorn(files) /\ files # << >>
      /\ height = L /\ savepoint = L - 1
  BY DEF Inv, DiskOK, BeforeAppend, Untorn
<1>2. /\ i \in Info /\ i.file \in 1..Len(files) /\ i.size = Size(files, i.file)
      /\ Len(files) \in Nat /\ i.file \in Nat /\ i.size \in Nat /\ i.last \in 0..MaxBlock
      /\ (i.none => L = 0) /\ (~i.none => L = i.last + 1)
  BY <1>1, SummaryFile
<1>3. height >= peak \/ preReset >= peak
  BY <1>1 DEF RecordOK, Serving, Adding
<1> QED
  BY <1>1, <1>2, <1>3

\* The committer chooses the file.
LEMMA AddBlockStep ==
  ASSUME NEW L \in Nat, Inv(L), AddBlock
  PROVE  Inv(L)'
<1>1. /\ pc = "idle" /\ height =< MaxBlock /\ UNCHANGED <<disk, mem, height, reject, itr, cmd, peak>>
  BY DEF AddBlock
<1>2. PICK i : i = mem
  OBVIOUS
<1>3. /\ L \in 0..(MaxBlock + 1) /\ Layout(files, L) /\ DiskOK(L) /\ Typed /\ ItrOK /\ RecordOK(L)
      /\ i = info /\ Summary(i, files, L, 0) /\ Untorn(files) /\ files # << >>
      /\ height = L /\ savepoint = L - 1 /\ i.file \in 1..Len(files) /\ Len(files) \in Nat
  BY <1>1, <1>2, BeforeFacts
<1>4. SubSeq(files[i.file].blocks, 1, i.size) = files[i.file].blocks
  BY <1>3, SummaryFile
<1>5. pc' = IF FileSize(files[i.file].blocks) + BlockSize[height] > MaxFileSize
              THEN "nextFile" ELSE "append"
  BY <1>2, <1>4 DEF AddBlock
<1>6. pc' = "nextFile" => FileSize(files[i.file].blocks) + BlockSize[height] > MaxFileSize
  BY <1>5
<1>7. pc' = "append" => i.file = Len(files)
  <2>1. pc' = "append" => ~(i.file < Len(files))
    BY <1>3, <1>5 DEF Summary
  <2> QED
    BY <1>3, <2>1
<1>8. pc' \in {"nextFile", "append"}
  BY <1>5
<1>9. BeforeAppend(L)'
  BY <1>1, <1>2, <1>3, <1>6, <1>7, <1>8 DEF BeforeAppend, disk
<1>10. DiskOK(L)' /\ Typed'
  BY <1>1, <1>3, <1>8 DEF DiskOK, Typed, disk, cmd, Serving, Adding
<1>11. RecordOK(L)' /\ ItrOK'
  BY <1>1, <1>3, <1>8 DEF RecordOK, ItrOK, disk, Serving, Adding
<1> QED
  BY <1>8, <1>9, <1>10, <1>11, BeforeInv

\* A new file, unless the last run made it.
LEMMA NextFileStep ==
  ASSUME NEW L \in Nat, Inv(L), NextFile
  PROVE  Inv(L)'
<1>1. /\ pc = "nextFile" /\ pc' = "saveNext"
      /\ files' = IF mem.file = Len(files) THEN Append(files, NoFile) ELSE files
      /\ UNCHANGED <<db, preReset, mem, height, reject, itr, cmd, peak>>
  BY DEF NextFile
<1>2. PICK i : i = mem
  OBVIOUS
<1>3. PICK gs : gs = files'
  OBVIOUS
<1>4. /\ L \in 0..(MaxBlock + 1) /\ Layout(files, L) /\ Indexed(index, savepoint, files, L)
      /\ DiskOK(L) /\ Typed /\ ItrOK /\ RecordOK(L) /\ BeforeAppend(L)
      /\ i = info /\ Summary(i, files, L, 0) /\ Untorn(files) /\ files # << >>
      /\ height = L /\ savepoint = L - 1
      /\ i \in Info /\ i.file \in 1..Len(files) /\ i.size = Size(files, i.file)
      /\ Len(files) \in Nat /\ i.file \in Nat /\ i.size \in Nat
  BY <1>1, <1>2, BeforeFacts
<1>5. height =< MaxBlock /\ FileSize(files[i.file].blocks) + BlockSize[height] > MaxFileSize
  BY <1>1, <1>2, <1>4 DEF BeforeAppend
<1>6. /\ Layout(gs, L) /\ Untorn(gs) /\ Extends(gs, files) /\ Summary(i, gs, L, 0)
      /\ i.file < Len(gs) /\ gs[i.file] = files[i.file] /\ Len(gs) \in Nat
  <2>1. CASE i.file = Len(files)
    <3>1. PICK b \in Seq(0..MaxBlock) : b = files[i.file].blocks /\ Size(files, i.file) = Len(b)
      BY <1>4, LayoutTypes
    <3>2. Len(b) >= 1
      <4> SUFFICES ASSUME ~(Len(b) >= 1) PROVE FALSE
        OBVIOUS
      <4>1. b = << >>
        OBVIOUS
      <4>2. FileSize(files[i.file].blocks) = 0
        BY <3>1, <4>1, EmptyFile
      <4>3. height \in 0..MaxBlock
        BY <1>4, <1>5, BlockStoreAssumption
      <4>4. BlockSize[height] \in 1..MaxFileSize /\ MaxFileSize \in Nat
        BY <4>3, BlockStoreAssumption
      <4> QED
        BY <1>5, <4>2, <4>4
    <3>3. Size(files, Len(files)) >= 1 /\ ~files[Len(files)].torn
      BY <1>4, <2>1, <3>1, <3>2 DEF Untorn
    <3>4. gs = Append(files, NoFile)
      BY <1>1, <1>2, <1>3, <2>1
    <3>5. Layout(gs, L) /\ Len(gs) = Len(files) + 1 /\ Untorn(gs) /\ Extends(gs, files)
      BY <1>4, <3>3, <3>4, NewFile
    <3>6. NoFile \in File
      BY DEF NoFile, File
    <3>7. gs[Len(gs)] = NoFile /\ gs[i.file] = files[i.file]
      <4>1. files \in Seq(File)
        BY <1>4, LayoutTypes
      <4> QED
        BY <1>4, <3>4, <3>5, <3>6, <4>1
    <3>8. i.file < Len(gs) /\ i.file + 1 = Len(gs) /\ i.file \in 1..Len(gs) /\ Len(gs) \in Nat
      BY <1>4, <2>1, <3>5
    <3>9. Size(gs, i.file) = Size(files, i.file)
      BY <3>7 DEF Size
    <3>10. Summary(i, gs, L, 0)
      BY <1>4, <1>5, <3>7, <3>8, <3>9 DEF Summary
    <3> QED
      BY <3>5, <3>7, <3>8, <3>10
  <2>2. CASE i.file # Len(files)
    <3>1. gs = files
      BY <1>1, <1>2, <1>3, <2>2
    <3>2. i.file < Len(files)
      BY <1>4, <2>2
    <3> QED
      BY <1>4, <3>1, <3>2, ExtendsRefl
  <2> QED
    BY <2>1, <2>2
<1>7. Indexed(index, savepoint, gs, L)
  BY <1>4, <1>6, IndexedGrows
<1>8. DiskOK(L)' /\ Typed'
  BY <1>1, <1>3, <1>4, <1>6, <1>7 DEF DiskOK, Typed, db, cmd, Serving, Adding
<1>9. BeforeAppend(L)'
  BY <1>1, <1>2, <1>3, <1>4, <1>5, <1>6 DEF BeforeAppend, db
<1>10. RecordOK(L)'
  BY <1>1, <1>4 DEF RecordOK, Serving, Adding
<1>11. ItrOK'
  <2>1. CASE itr = NoItr
    BY <1>1, <2>1 DEF ItrOK
  <2>2. CASE itr # NoItr
    <3>1. ItrFits(itr, files, i) /\ itr \in Iterator
      BY <1>2, <1>4, <2>2 DEF ItrOK, Typed
    <3>2. i.last =< i.last /\ ~i.none
      BY <1>4, <3>1, BlockStoreAssumption DEF ItrFits, Info
    <3>3. PICK it : it = itr
      OBVIOUS
    <3>4. ItrFits(it, gs, i)
      BY <1>4, <1>6, <3>1, <3>2, <3>3, ItrGrows
    <3> QED
      BY <1>1, <1>2, <1>3, <3>3, <3>4 DEF ItrOK, Serving, Adding
  <2> QED
    BY <2>1, <2>2
<1> QED
  BY <1>1, <1>8, <1>9, <1>10, <1>11, BeforeInv

\* An iterator is not disturbed by a step of the committer.
LEMMA ItrKept ==
  ASSUME ItrOK, itr \in Iterator, itr' = itr, pc' \in Serving,
         NEW m \in Info, m = mem, NEW r \in Info, r = mem',
         NEW gs, gs = files', Extends(gs, files), Len(files) \in Nat, Len(gs) \in Nat,
         ~m.none => ~r.none /\ m.last =< r.last
  PROVE  ItrOK'
<1>1. CASE itr = NoItr
  BY <1>1 DEF ItrOK
<1>2. CASE itr # NoItr
  <2>1. PICK it : it = itr
    OBVIOUS
  <2>2. ItrFits(it, files, m) /\ it \in Iterator
    BY <1>2, <2>1 DEF ItrOK
  <2>3. ~m.none
    BY <2>2 DEF ItrFits
  <2>4. ItrFits(it, gs, r)
    BY <2>2, <2>3, ItrGrows
  <2> QED
    BY <2>1, <2>4 DEF ItrOK
<1> QED
  BY <1>1, <1>2

\* The summary names the new file.
LEMMA SaveNextFileStep ==
  ASSUME NEW L \in Nat, Inv(L), SaveNextFile
  PROVE  Inv(L)'
<1>1. /\ pc = "saveNext" /\ pc' = "append" /\ info' = mem'
      /\ mem' = [file |-> mem.file + 1, size |-> 0, none |-> FALSE, last |-> mem.last]
      /\ UNCHANGED <<files, index, savepoint, preReset, height, reject, itr, cmd, peak>>
  BY DEF SaveNextFile
<1>2. PICK i : i = mem
  OBVIOUS
<1>3. PICK r : r = mem'
  OBVIOUS
<1>4. /\ L \in 0..(MaxBlock + 1) /\ Layout(files, L) /\ Indexed(index, savepoint, files, L)
      /\ DiskOK(L) /\ Typed /\ ItrOK /\ RecordOK(L) /\ BeforeAppend(L)
      /\ i = info /\ Summary(i, files, L, 0) /\ Untorn(files) /\ files # << >>
      /\ height = L /\ savepoint = L - 1
      /\ i \in Info /\ i.file \in 1..Len(files) /\ i.size = Size(files, i.file)
      /\ Len(files) \in Nat /\ i.file \in Nat /\ i.size \in Nat /\ i.last \in 0..MaxBlock
      /\ ~i.none => L = i.last + 1
  BY <1>1, <1>2, BeforeFacts
<1>5. height =< MaxBlock /\ i.file < Len(files)
  BY <1>1, <1>2, <1>4 DEF BeforeAppend
<1>6. i.file + 1 = Len(files) /\ files[Len(files)] = NoFile /\ (i.none => i.size = 0)
  BY <1>4, <1>5 DEF Summary
<1>7. ~i.none
  <2>1. Size(files, i.file) >= 1
    BY <1>4, <1>5 DEF Layout
  <2> QED
    BY <1>4, <1>6, <2>1
<1>8. r = [file |-> Len(files), size |-> 0, none |-> FALSE, last |-> i.last]
  BY <1>1, <1>2, <1>3, <1>6
<1>9. r \in Info /\ r.file = Len(files) /\ r.size = 0 /\ r.none = FALSE /\ r.last = i.last
  BY <1>4, <1>8 DEF Info
<1>10. Summary(r, files, L, 0)
  <2>1. Known(r) + 0 = L
    BY <1>4, <1>7, <1>9, BlockStoreAssumption DEF Known
  <2>2. Size(files, Len(files)) = 0
    BY <1>6 DEF Size, NoFile
  <2>3. r.file \in 1..Len(files) /\ r.size + 0 = Size(files, r.file) /\ ~(r.file < Len(files))
    BY <1>4, <1>9, <2>2
  <2> QED
    BY <1>9, <2>1, <2>3 DEF Summary
<1>11. DiskOK(L)' /\ Typed'
  BY <1>1, <1>3, <1>4, <1>9, <1>10 DEF DiskOK, Typed, cmd, Serving, Adding
<1>12. BeforeAppend(L)'
  BY <1>1, <1>3, <1>4, <1>5, <1>9, <1>10 DEF BeforeAppend
<1>13. RecordOK(L)'
  BY <1>1, <1>4 DEF RecordOK, Serving, Adding
<1>14. ItrOK'
  <2>1. Extends(files', files) /\ itr \in Iterator /\ pc' \in Serving /\ i.last =< r.last
    BY <1>1, <1>4, <1>9, ExtendsRefl, BlockStoreAssumption DEF Typed, Serving, Adding
  <2> QED
    BY <1>1, <1>2, <1>3, <1>4, <1>9, <2>1, ItrKept
<1> QED
  BY <1>1, <1>11, <1>12, <1>13, <1>14, BeforeInv

\* What the summary says when it knows of the new block.
LEMMA NewInfoIs ==
  ASSUME NEW i \in Info, i = mem, height \in 0..MaxBlock
  PROVE  /\ NewInfo \in Info /\ NewInfo.file = i.file /\ NewInfo.size = i.size + 1
         /\ NewInfo.none = FALSE /\ NewInfo.last = height
<1>1. i.size + 1 \in Nat /\ i.file \in Nat
  BY DEF Info
<1>2. NewInfo = [file |-> i.file, size |-> i.size + 1, none |-> FALSE, last |-> height]
  <2>1. PICK f, k, b, l : i = [file |-> f, size |-> k, none |-> b, last |-> l]
    BY DEF Info
  <2>2. NewInfo = [i EXCEPT !.size = i.size + 1, !.none = FALSE, !.last = height]
    BY DEF NewInfo
  <2> QED
    BY <2>1, <2>2
<1> QED
  BY <1>1, <1>2 DEF Info

\* The block is in the file.
LEMMA AppendBlockStep ==
  ASSUME NEW L \in Nat, Inv(L), AppendBlock
  PROVE  Inv(L + 1)'
<1>1. /\ pc = "append" /\ pc' = "save"
      /\ files' = [files EXCEPT ![mem.file].blocks = Append(files[mem.file].blocks, height)]
      /\ UNCHANGED <<db, preReset, mem, height, reject, itr, cmd, peak>>
  BY DEF AppendBlock
<1>2. PICK i : i = mem
  OBVIOUS
<1>3. PICK gs : gs = files'
  OBVIOUS
<1>4. /\ L \in 0..(MaxBlock + 1) /\ Layout(files, L) /\ Indexed(index, savepoint, files, L)
      /\ DiskOK(L) /\ Typed /\ ItrOK /\ RecordOK(L) /\ BeforeAppend(L)
      /\ i = info /\ Summary(i, files, L, 0) /\ Untorn(files) /\ files # << >>
      /\ height = L /\ savepoint = L - 1
      /\ i \in Info /\ i.file \in 1..Len(files) /\ i.size = Size(files, i.file)
      /\ Len(files) \in Nat /\ i.file \in Nat /\ i.size \in Nat /\ i.last \in 0..MaxBlock
      /\ ~i.none => L = i.last + 1
  BY <1>1, <1>2, BeforeFacts
<1>5. L =< MaxBlock /\ i.file = Len(files) /\ height \in 0..MaxBlock
  <2>1. height =< MaxBlock /\ i.file = Len(files)
    BY <1>1, <1>2, <1>4 DEF BeforeAppend
  <2> QED
    BY <1>4, <2>1, BlockStoreAssumption
<1>6. PICK e : e = [files[i.file] EXCEPT !.blocks = Append(files[i.file].blocks, height)]
  OBVIOUS
<1>7. gs = [files EXCEPT ![Len(files)] = e]
  BY <1>1, <1>2, <1>3, <1>5, <1>6
<1>8. e \in File /\ e.blocks = Append(files[i.file].blocks, height) /\ e.torn = files[i.file].torn
  <2>1. files[i.file] \in File /\ files[i.file].blocks \in Seq(0..MaxBlock)
    BY <1>4, LayoutTypes
  <2>2. Append(files[i.file].blocks, height) \in Seq(0..MaxBlock)
    BY <1>5, <2>1
  <2> QED
    BY <1>6, <2>1, <2>2 DEF File
<1>9. SameBefore(gs, files) /\ gs[Len(files)] = e
  <2>1. files \in Seq(File)
    BY <1>4, LayoutTypes
  <2> QED
    BY <1>4, <1>7, <1>8, <2>1, ReplaceLast
<1>10. /\ Layout(gs, L + 1) /\ Extends(gs, files)
       /\ Size(gs, i.file) = Size(files, i.file) + 1
  <2>1. gs[i.file].blocks = Append(files[i.file].blocks, L)
    BY <1>4, <1>5, <1>8, <1>9
  <2> QED
    BY <1>4, <1>5, <1>9, <2>1, GrowLast, SMTT(30)
<1>11. Len(gs) = Len(files) /\ Untorn(gs)
  <2>1. Len(gs) = Len(files) /\ gs \in Seq(File)
    BY <1>9 DEF SameBefore
  <2>2. gs # << >>
    BY <1>4, <2>1
  <2> QED
    BY <1>4, <1>5, <1>8, <1>9, <2>1, <2>2 DEF Untorn
<1>12. PICK M \in 0..(MaxBlock + 1) : M = L + 1 /\ M \in Nat
  BY <1>4, <1>5, BlockStoreAssumption
<1>13. Layout(gs, M) /\ i.file \in 1..Len(gs) /\ ~(i.file < Len(gs))
  BY <1>4, <1>5, <1>10, <1>11, <1>12
<1>14. Summary(i, gs, M, 1)
  <2>1. Known(i) + 1 = M /\ i.size + 1 = Size(gs, i.file)
    BY <1>4, <1>10, <1>12 DEF Summary, Known
  <2> QED
    BY <1>4, <1>13, <2>1 DEF Summary
<1>15. PICK r : r = NewInfo
  OBVIOUS
<1>16. r \in Info /\ r.file = i.file /\ r.size = i.size + 1 /\ r.none = FALSE /\ r.last = height
  BY <1>2, <1>4, <1>5, <1>15, NewInfoIs
<1>17. Summary(r, gs, M, 0)
  <2>1. Known(r) + 0 = M /\ r.size + 0 = Size(gs, r.file)
    BY <1>4, <1>10, <1>12, <1>16 DEF Known
  <2> QED
    BY <1>13, <1>16, <2>1 DEF Summary
<1>18. Indexed(index, savepoint, gs, M)
  BY <1>4, <1>10, <1>11, <1>12, IndexedGrows
<1>19. DiskOK(M)' /\ Typed'
  BY <1>1, <1>2, <1>3, <1>4, <1>12, <1>13, <1>14, <1>18
     DEF DiskOK, Typed, db, cmd, Serving, Adding
<1>20. AfterAppend(M)'
  <2>1. NewInfo' = NewInfo
    BY <1>1 DEF NewInfo
  <2> QED
    BY <1>1, <1>2, <1>3, <1>4, <1>5, <1>11, <1>12, <1>14, <1>15, <1>17, <2>1
       DEF AfterAppend, db
<1>21. RecordOK(M)'
  BY <1>1, <1>4 DEF RecordOK, Serving, Adding
<1>22. ItrOK'
  <2>1. itr \in Iterator /\ pc' \in Serving /\ Len(gs) \in Nat /\ i.last =< i.last /\ mem' = i /\ itr' = itr
    BY <1>1, <1>2, <1>4, <1>11, BlockStoreAssumption, SMTT(30) DEF Typed, Serving, Adding
  <2> QED
    BY <1>2, <1>3, <1>4, <1>10, <2>1, ItrKept
<1>23. Inv(M)'
  BY <1>1, <1>12, <1>19, <1>20, <1>21, <1>22, AfterInv
<1> QED
  BY <1>12, <1>23

\* What is known once the block is in the file.
LEMMA AfterFacts ==
  ASSUME NEW L \in Nat, Inv(L), pc \in {"save", "index", "publish", "height"}, NEW i, i = mem
  PROVE  /\ L \in 0..(MaxBlock + 1) /\ Layout(files, L) /\ Indexed(index, savepoint, files, L)
         /\ DiskOK(L) /\ Typed /\ ItrOK /\ RecordOK(L) /\ AfterAppend(L)
         /\ height \in 0..MaxBlock /\ height \in Nat /\ L = height + 1
         /\ Untorn(files) /\ files # << >> /\ Len(files) \in Nat
         /\ i \in Info /\ i.file = Len(files) /\ i.size \in Nat /\ i.last \in 0..MaxBlock
         /\ Len(files) \in 1..Len(files)
         /\ pc # "height" => Summary(i, files, L, 1) /\ Summary(NewInfo, files, L, 0)
         /\ height >= peak \/ preReset >= peak
<1>1. /\ L \in 0..(MaxBlock + 1) /\ Layout(files, L) /\ Indexed(index, savepoint, files, L)
      /\ DiskOK(L) /\ Typed /\ ItrOK /\ RecordOK(L) /\ AfterAppend(L)
      /\ height \in 0..MaxBlock /\ height \in Nat /\ L = height + 1
      /\ Untorn(files) /\ files # << >> /\ i.file = Len(files)
      /\ pc # "height" => Summary(i, files, L, 1) /\ Summary(NewInfo, files, L, 0)
  BY BlockStoreAssumption DEF Inv, DiskOK, AfterAppend, Untorn
<1>2. files \in Seq(File) /\ Len(files) \in Nat
  BY <1>1, LayoutTypes
<1>3. Len(files) \in 1..Len(files)
  BY <1>1, <1>2
<1>4. i \in Info /\ i.size \in Nat /\ i.last \in 0..MaxBlock
  BY <1>1 DEF Typed, Info
<1>5. height >= peak \/ preReset >= peak
  BY <1>1 DEF RecordOK, Serving, Adding
<1> QED
  BY <1>1, <1>2, <1>3, <1>4, <1>5

\* The summary is saved.
LEMMA SaveInfoStep ==
  ASSUME NEW L \in Nat, Inv(L), SaveInfo
  PROVE  Inv(L)'
<1>1. /\ pc = "save" /\ pc' = "index" /\ info' = NewInfo
      /\ UNCHANGED <<files, index, savepoint, preReset, mem, height, reject, itr, cmd, peak>>
  BY DEF SaveInfo
<1>2. PICK r : r = NewInfo
  OBVIOUS
<1>3. /\ DiskOK(L) /\ Typed /\ ItrOK /\ RecordOK(L) /\ AfterAppend(L) /\ Summary(r, files, L, 0)
  BY <1>1, <1>2, AfterFacts
<1>4. NewInfo' = NewInfo /\ info' = r /\ r \in Info
  BY <1>1, <1>2, <1>3 DEF NewInfo, Summary
<1>5. DiskOK(L)' /\ Typed'
  BY <1>1, <1>3, <1>4 DEF DiskOK, Typed, cmd, Serving, Adding
<1>6. AfterAppend(L)'
  BY <1>1, <1>2, <1>3, <1>4 DEF AfterAppend
<1>7. RecordOK(L)' /\ ItrOK'
  BY <1>1, <1>3 DEF RecordOK, ItrOK, Serving, Adding
<1> QED
  BY <1>1, <1>5, <1>6, <1>7, AfterInv

\* A file that is cut off is a file.
LEMMA Prefix ==
  ASSUME NEW S, NEW b \in Seq(S), NEW k \in 0..Len(b)
  PROVE  SubSeq(b, 1, k) \in Seq(S)
<1>1. \A i \in 1..k : b[i] \in S
  OBVIOUS
<1>2. SubSeq(b, 1, k) = [i \in 1..k |-> b[i]]
  OBVIOUS
<1>3. [i \in 1..k |-> b[i]] \in Seq(S)
  BY <1>1
<1> QED
  BY <1>2, <1>3

\* It cannot be saved, and the block is removed again.
LEMMA SaveInfoFailsStep ==
  ASSUME NEW L \in Nat, Inv(L), SaveInfoFails
  PROVE  \E M \in Nat : L = M + 1 /\ Inv(M)'
<1>1. /\ pc = "save" /\ pc' = "down" /\ itr' = NoItr
      /\ files' = [files EXCEPT ![mem.file].blocks = SubSeq(files[mem.file].blocks, 1, mem.size)]
      /\ UNCHANGED <<db, preReset, mem, height, reject, cmd, peak>>
  BY DEF SaveInfoFails
<1>2. PICK i : i = mem
  OBVIOUS
<1>3. PICK gs : gs = files'
  OBVIOUS
<1>4. /\ L \in 0..(MaxBlock + 1) /\ Layout(files, L) /\ Indexed(index, savepoint, files, L)
      /\ DiskOK(L) /\ Typed /\ ItrOK /\ RecordOK(L) /\ AfterAppend(L)
      /\ height \in 0..MaxBlock /\ height \in Nat /\ L = height + 1
      /\ Untorn(files) /\ files # << >> /\ Len(files) \in Nat
      /\ i \in Info /\ i.file = Len(files) /\ i.size \in Nat
      /\ Len(files) \in 1..Len(files)
      /\ Summary(i, files, L, 1)
      /\ height >= peak \/ preReset >= peak
  BY <1>1, <1>2, AfterFacts
<1>5. i.size + 1 = Size(files, Len(files)) /\ i.size \in 0..Size(files, Len(files))
  BY <1>4 DEF Summary
<1>6. PICK e : e = [files[Len(files)] EXCEPT !.blocks = SubSeq(files[Len(files)].blocks, 1, i.size)]
  OBVIOUS
<1>7. gs = [files EXCEPT ![Len(files)] = e]
  BY <1>1, <1>2, <1>3, <1>4, <1>6
<1>8. e \in File /\ e.blocks = SubSeq(files[Len(files)].blocks, 1, i.size)
  <2>1. /\ files[Len(files)] \in File /\ files[Len(files)].blocks \in Seq(0..MaxBlock)
        /\ Size(files, Len(files)) = Len(files[Len(files)].blocks)
    BY <1>4, LayoutTypes
  <2>2. PICK b \in Seq(0..MaxBlock) : b = files[Len(files)].blocks
    BY <2>1
  <2>3. SubSeq(b, 1, i.size) \in Seq(0..MaxBlock)
    <3>1. i.size \in 0..Len(b)
      BY <1>5, <2>1, <2>2
    <3> QED
      BY <3>1, Prefix
  <2> QED
    BY <1>6, <2>1, <2>2, <2>3 DEF File
<1>9. SameBefore(gs, files) /\ gs[Len(files)] = e
  <2>1. files \in Seq(File)
    BY <1>4, LayoutTypes
  <2> QED
    BY <1>4, <1>7, <1>8, <2>1, ReplaceLast
<1>10. PICK h \in 0..Size(files, Len(files)) : h = i.size
  BY <1>5
<1>11. gs[Len(files)].blocks = SubSeq(files[Len(files)].blocks, 1, h)
  BY <1>8, <1>9, <1>10
<1>12. /\ Extends(files, gs) /\ Size(gs, Len(files)) = h
       /\ \E M \in Nat : M + Size(files, Len(files)) = L + h /\ Layout(gs, M)
  BY <1>4, <1>9, <1>11, CutLast
<1>13. PICK M \in Nat : M + Size(files, Len(files)) = L + h /\ Layout(gs, M)
  BY <1>12
<1>14. M = height /\ M \in 0..(MaxBlock + 1)
  BY <1>4, <1>5, <1>10, <1>13, BlockStoreAssumption
<1>15. Len(gs) = Len(files)
  BY <1>9 DEF SameBefore
<1>16. Summary(i, gs, M, 0)
  <2>1. Known(i) + 0 = M
    BY <1>4, <1>14 DEF Summary, Known, Info
  <2>2. i.size + 0 = Size(gs, i.file) /\ i.file \in 1..Len(gs) /\ ~(i.file < Len(gs))
    BY <1>4, <1>10, <1>12, <1>15
  <2> QED
    BY <1>4, <2>1, <2>2 DEF Summary
<1>17. savepoint = height - 1 /\ info = i
  BY <1>1, <1>2, <1>4 DEF AfterAppend
<1>18. Indexed(index, savepoint, gs, M)
  <2>1. savepoint < M
    BY <1>4, <1>14, <1>17
  <2> QED
    BY <1>4, <1>12, <1>13, <2>1, IndexedShrinks
<1>19. DiskOK(M)'
  BY <1>1, <1>3, <1>13, <1>14, <1>16, <1>17, <1>18 DEF DiskOK, db
<1>20. Typed'
  BY <1>1, <1>4, NoneTyped DEF Typed, db, cmd
<1>21. M >= peak' \/ preReset' >= peak'
  BY <1>1, <1>4, <1>14
<1>22. Inv(M)'
  BY <1>1, <1>19, <1>20, <1>21, DownInv
<1> QED
  BY <1>4, <1>14, <1>22

\* The block is indexed.
LEMMA IndexNewBlockStep ==
  ASSUME NEW L \in Nat, Inv(L), IndexNewBlock
  PROVE  Inv(L)'
<1>1. /\ pc = "index" /\ pc' = "publish" /\ savepoint' = height
      /\ index' = [b \in DOMAIN index \cup {height} |->
                     IF b = height THEN [file |-> mem.file, pos |-> mem.size] ELSE index[b]]
      /\ UNCHANGED <<files, info, preReset, mem, height, reject, itr, cmd, peak>>
  BY DEF IndexNewBlock, IndexBlock
<1>2. PICK i : i = mem
  OBVIOUS
<1>3. /\ L \in 0..(MaxBlock + 1) /\ Layout(files, L) /\ Indexed(index, savepoint, files, L)
      /\ DiskOK(L) /\ Typed /\ ItrOK /\ RecordOK(L) /\ AfterAppend(L)
      /\ height \in 0..MaxBlock /\ height \in Nat /\ L = height + 1
      /\ files # << >> /\ Len(files) \in Nat
      /\ i \in Info /\ i.file = Len(files) /\ i.size \in Nat
      /\ Len(files) \in 1..Len(files)
      /\ Summary(i, files, L, 1)
  BY <1>1, <1>2, AfterFacts
<1>4. PICK loc : loc = [file |-> mem.file, pos |-> mem.size]
  OBVIOUS
<1>5. Locates(loc, files, height)
  <2>1. loc \in Location /\ loc.file = Len(files) /\ loc.pos = i.size
    BY <1>2, <1>3, <1>4 DEF Location
  <2>2. PICK k \in Nat : k = i.size + 1 /\ k >= 1
    BY <1>3
  <2>3. k = Size(files, Len(files)) /\ k \in 1..Size(files, Len(files)) /\ Len(files) >= 1
    BY <1>3, <2>2 DEF Summary
  <2>4. At(files, Len(files), k) = L - 1
    BY <1>3, <2>2, <2>3, LastBlock
  <2>5. L - 1 = height
    BY <1>3
  <2> QED
    BY <1>3, <2>1, <2>2, <2>3, <2>4, <2>5 DEF Locates
<1>6. savepoint + 1 = height /\ height < L
  <2>1. savepoint = height - 1
    BY <1>1, <1>3 DEF AfterAppend
  <2> QED
    BY <1>3, <2>1
<1>7. Indexed(index, savepoint, files, L)'
  <2>1. PICK jdx : jdx = index'
    OBVIOUS
  <2>2. jdx = [b \in DOMAIN index \cup {height} |-> IF b = height THEN loc ELSE index[b]]
    BY <1>1, <1>4, <2>1
  <2>3. height = savepoint + 1
    BY <1>6
  <2>4. Indexed(jdx, height, files, L)
    BY <1>3, <1>5, <1>6, <2>2, <2>3, IndexedNext
  <2> QED
    BY <1>1, <2>1, <2>4
<1>8. DiskOK(L)' /\ Typed'
  BY <1>1, <1>3, <1>7 DEF DiskOK, Typed, cmd, Serving, Adding
<1>9. AfterAppend(L)'
  <2>1. NewInfo' = NewInfo
    BY <1>1 DEF NewInfo
  <2> QED
    BY <1>1, <1>3, <2>1 DEF AfterAppend
<1>10. RecordOK(L)' /\ ItrOK'
  BY <1>1, <1>3 DEF RecordOK, ItrOK, Serving, Adding
<1> QED
  BY <1>1, <1>8, <1>9, <1>10, AfterInv

\* The summary in memory knows of the block.
LEMMA UpdateBlockfilesInfoStep ==
  ASSUME NEW L \in Nat, Inv(L), UpdateBlockfilesInfo
  PROVE  Inv(L)'
<1>1. /\ pc = "publish" /\ pc' = "height" /\ mem' = NewInfo
      /\ UNCHANGED <<disk, height, reject, itr, cmd, peak>>
  BY DEF UpdateBlockfilesInfo
<1>2. PICK i : i = mem
  OBVIOUS
<1>3. PICK r : r = mem'
  OBVIOUS
<1>4. /\ DiskOK(L) /\ Typed /\ ItrOK /\ RecordOK(L) /\ AfterAppend(L)
      /\ height \in 0..MaxBlock /\ height \in Nat /\ L = height + 1 /\ Len(files) \in Nat
      /\ i \in Info /\ i.file = Len(files) /\ i.last \in 0..MaxBlock
      /\ Summary(i, files, L, 1) /\ Summary(r, files, L, 0)
  BY <1>1, <1>2, <1>3, AfterFacts
<1>5. r \in Info /\ r.file = i.file /\ r.none = FALSE /\ r.last = height
  BY <1>1, <1>2, <1>3, <1>4, NewInfoIs
<1>6. DiskOK(L)' /\ Typed'
  BY <1>1, <1>3, <1>4, <1>5 DEF DiskOK, Typed, disk, cmd, Serving, Adding
<1>7. info = r
  BY <1>1, <1>3, <1>4 DEF AfterAppend
<1>8. AfterAppend(L)'
  BY <1>1, <1>3, <1>4, <1>5, <1>7 DEF AfterAppend, disk
<1>9. RecordOK(L)'
  BY <1>1, <1>4 DEF RecordOK, disk, Serving, Adding
<1>10. ItrOK'
  <2>1. ~i.none => i.last =< r.last
    BY <1>4, <1>5, BlockStoreAssumption DEF Summary, Known
  <2>2. itr \in Iterator /\ pc' \in Serving /\ itr' = itr /\ files' = files
    BY <1>1, <1>4 DEF Typed, Serving, Adding, disk
  <2> QED
    BY <1>2, <1>3, <1>4, <1>5, <2>1, <2>2, ExtendsRefl, ItrKept
<1> QED
  BY <1>1, <1>6, <1>8, <1>9, <1>10, AfterInv

\* The new height is reported.
LEMMA UpdateBlockchainInfoStep ==
  ASSUME NEW L \in Nat, Inv(L), UpdateBlockchainInfo
  PROVE  Inv(L)'
<1>1. /\ pc = "height" /\ pc' = "idle" /\ height' = height + 1 /\ peak' = Max({peak, height'})
      /\ UNCHANGED <<disk, mem, reject, itr, cmd>>
  BY DEF UpdateBlockchainInfo
<1>2. PICK i : i = mem
  OBVIOUS
<1>3. /\ DiskOK(L) /\ Typed /\ ItrOK /\ RecordOK(L) /\ AfterAppend(L) /\ L \in 0..(MaxBlock + 1)
      /\ height \in 0..MaxBlock /\ height \in Nat /\ L = height + 1 /\ Untorn(files)
      /\ height >= peak \/ preReset >= peak
  BY <1>1, <1>2, AfterFacts
<1>4. height' = L /\ mem = info /\ Summary(mem, files, L, 0) /\ savepoint = height
  BY <1>1, <1>3 DEF AfterAppend
<1>5. peak \in 0..(MaxBlock + 1) /\ preReset \in Int /\ MaxBlock \in Nat
  BY <1>3, BlockStoreAssumption DEF Typed, Empty
<1>6. peak' = IF peak >= L THEN peak ELSE L
  BY <1>1, <1>4, <1>5, MaxTwo
<1>7. height' \in 0..(MaxBlock + 1) /\ peak' \in 0..(MaxBlock + 1)
  BY <1>3, <1>4, <1>5, <1>6
<1>8. DiskOK(L)' /\ Typed'
  BY <1>1, <1>3, <1>7 DEF DiskOK, Typed, disk, cmd, Serving
<1>9. savepoint = L - 1
  BY <1>3, <1>4
<1>10. BeforeAppend(L)'
  BY <1>1, <1>3, <1>4, <1>9 DEF BeforeAppend, disk
<1>11. RecordOK(L)'
  <2>1. height' >= peak' \/ preReset' >= peak'
    BY <1>1, <1>3, <1>4, <1>5, <1>6 DEF disk
  <2>2. preReset # Empty /\ (~reject => preReset = Absent)
    BY <1>1, <1>3 DEF RecordOK, Serving, Adding
  <2> QED
    BY <1>1, <2>1, <2>2 DEF RecordOK, Serving, disk
<1>12. ItrOK'
  BY <1>1, <1>3 DEF ItrOK, disk, Serving, Adding
<1> QED
  BY <1>1, <1>8, <1>10, <1>11, <1>12, BeforeInv

\* A crash leaves what is on disk, with a torn block or an old summary at worst.
LEMMA CrashStep ==
  ASSUME NEW L \in Nat, Inv(L), Crash
  PROVE  Inv(L)'
<1>1. /\ pc # "down" /\ pc' = "down" /\ itr' = NoItr
      /\ UNCHANGED <<index, savepoint, preReset, mem, height, reject, cmd, peak>>
      /\ files' = files \/ (pc = "append" /\ files' = [files EXCEPT ![mem.file].torn = TRUE])
      /\ info' = info \/ (pc = "index" /\ info' = mem)
  BY DEF Crash
<1>2. DiskOK(L) /\ Typed /\ RecordOK(L)
  BY DEF Inv
<1>3. PICK i : i = mem
  OBVIOUS
<1>4. info' \in Info
  BY <1>1, <1>2 DEF Typed
<1>5. Typed'
  BY <1>1, <1>2, <1>4, NoneTyped DEF Typed, cmd
<1>6. L >= peak \/ preReset >= peak
  <2>1. CASE pc \notin Serving
    BY <1>2, <2>1 DEF RecordOK
  <2>2. CASE pc \in {"idle", "nextFile", "saveNext", "append"}
    BY <1>3, <2>2, BeforeFacts
  <2>3. CASE pc \in {"save", "index", "publish", "height"}
    <3>1. /\ height >= peak \/ preReset >= peak
          /\ height \in Nat /\ L = height + 1
      BY <1>3, <2>3, AfterFacts
    <3>2. peak \in Int
      BY <1>2, BlockStoreAssumption DEF Typed
    <3> QED
      BY <3>1, <3>2
  <2> QED
    BY <2>1, <2>2, <2>3 DEF Serving, Adding
<1>7. DiskOK(L)'
  <2>1. CASE files' = files /\ info' = info
    BY <1>1, <1>2, <2>1 DEF DiskOK
  <2>2. CASE files' = files /\ pc = "index" /\ info' = mem
    <3>1. Summary(i, files, L, 1)
      BY <1>3, <2>2, AfterFacts
    <3> QED
      BY <1>1, <1>2, <1>3, <2>2, <3>1 DEF DiskOK
  <2>3. CASE pc = "append" /\ files' = [files EXCEPT ![mem.file].torn = TRUE]
    <3>1. /\ Layout(files, L) /\ Indexed(index, savepoint, files, L) /\ BeforeAppend(L)
          /\ L \in 0..(MaxBlock + 1)
          /\ i = info /\ Summary(i, files, L, 0) /\ files # << >>
          /\ i \in Info /\ i.file \in 1..Len(files) /\ i.size = Size(files, i.file)
          /\ Len(files) \in Nat /\ i.file \in Nat /\ i.size \in Nat
      BY <1>3, <2>3, BeforeFacts
    <3>2. i.file = Len(files)
      BY <1>3, <2>3, <3>1 DEF BeforeAppend
    <3>3. PICK gs : gs = files'
      OBVIOUS
    <3>4. PICK e : e = [files[Len(files)] EXCEPT !.torn = TRUE]
      OBVIOUS
    <3>5. gs = [files EXCEPT ![Len(files)] = e]
      BY <1>3, <2>3, <3>2, <3>3, <3>4
    <3>6. files[Len(files)] \in File /\ files \in Seq(File)
      BY <3>1, <3>2, LayoutTypes
    <3>7. e \in File /\ e.blocks = files[Len(files)].blocks
      BY <3>4, <3>6 DEF File
    <3>8. SameBefore(gs, files) /\ gs[Len(files)] = e
      BY <3>1, <3>5, <3>6, <3>7, ReplaceLast
    <3>9. gs[Len(files)].blocks = files[Len(files)].blocks
      BY <3>7, <3>8
    <3>10. /\ Layout(gs, L) /\ Extends(gs, files) /\ Len(gs) = Len(files)
           /\ \A f \in 1..Len(files) : Size(gs, f) = Size(files, f)
      BY <3>1, <3>8, <3>9, SameBlocks
    <3>11. Summary(i, gs, L, 0)
      <4>1. i.size + 0 = Size(gs, i.file) /\ i.file \in 1..Len(gs) /\ ~(i.file < Len(gs))
        BY <3>1, <3>2, <3>10
      <4> QED
        BY <3>1, <4>1 DEF Summary
    <3>12. Indexed(index, savepoint, gs, L)
      BY <3>1, <3>10, IndexedGrows
    <3>13. info' = i
      BY <1>1, <2>3, <3>1
    <3> QED
      BY <1>1, <3>1, <3>3, <3>10, <3>11, <3>12, <3>13 DEF DiskOK
  <2> QED
    BY <1>1, <2>1, <2>2, <2>3
<1>8. L >= peak' \/ preReset' >= peak'
  BY <1>1, <1>6
<1> QED
  BY <1>1, <1>5, <1>7, <1>8, DownInv

-----------------------------------------------------------------------------
(* Iterators and the reset loop. *)

\* While the store is open, what its summary knows of is in the files and indexed.
LEMMA ServingFacts ==
  ASSUME NEW L \in Nat, Inv(L), pc \in Serving, NEW i, i = mem
  PROVE  /\ Layout(files, L) /\ Untorn(files) /\ Indexed(index, savepoint, files, L)
         /\ Typed /\ i \in Info /\ i.last \in 0..MaxBlock /\ i.last \in Nat
         /\ height > 0 => ~i.none
         /\ ~i.none => i.last < L /\ i.last =< savepoint
         /\ ~i.none => height =< i.last + 1
         /\ Len(files) \in Nat /\ Len(files) \in 1..Len(files)
<1>1. CASE pc \in {"idle", "nextFile", "saveNext", "append"}
  <2>1. /\ Layout(files, L) /\ Indexed(index, savepoint, files, L) /\ Typed
        /\ Untorn(files) /\ files # << >> /\ height = L /\ savepoint = L - 1
        /\ i \in Info /\ i.file \in 1..Len(files) /\ Len(files) \in Nat /\ i.last \in 0..MaxBlock
        /\ (i.none => L = 0) /\ (~i.none => L = i.last + 1)
    BY <1>1, BeforeFacts
  <2>2. i.last \in Nat
    BY <2>1, BlockStoreAssumption
  <2> QED
    BY <2>1, <2>2
<1>2. CASE pc \in {"save", "index", "publish", "height"}
  <2>1. /\ Layout(files, L) /\ Indexed(index, savepoint, files, L) /\ Typed /\ AfterAppend(L)
        /\ L \in 0..(MaxBlock + 1)
        /\ height \in 0..MaxBlock /\ height \in Nat /\ L = height + 1
        /\ Untorn(files) /\ files # << >> /\ Len(files) \in Nat
        /\ i \in Info /\ i.last \in 0..MaxBlock
        /\ Len(files) \in 1..Len(files)
        /\ pc # "height" => Summary(i, files, L, 1)
    BY <1>2, AfterFacts
  <2>2. i.last \in Nat
    BY <2>1, BlockStoreAssumption
  <2>3. CASE pc # "height"
    <3>1. Known(i) + 1 = L
      BY <2>1, <2>3 DEF Summary
    <3>2. savepoint >= height - 1
      BY <1>2, <2>1, <2>3 DEF AfterAppend
    <3>3. savepoint \in Int
      BY <2>1 DEF Indexed
    <3> QED
      BY <2>1, <2>2, <3>1, <3>2, <3>3 DEF Known
  <2>4. CASE pc = "height"
    <3>1. Known(i) + 0 = L /\ savepoint = height
      BY <2>1, <2>4 DEF Summary, AfterAppend
    <3> QED
      BY <2>1, <2>2, <3>1 DEF Known
  <2> QED
    BY <2>3, <2>4
<1> QED
  BY <1>1, <1>2 DEF Serving, Adding

\* Only the iterator changes.
LEMMA ItrInv ==
  ASSUME NEW L \in Nat, Inv(L), UNCHANGED <<disk, mem, height, reject, pc, cmd, peak>>,
         itr' \in Iterator, ItrOK'
  PROVE  Inv(L)'
<1>1. DiskOK(L)' /\ Typed'
  BY DEF Inv, DiskOK, Typed, disk, cmd
<1>2. OpeningOK(L)' /\ BeforeAppend(L)'
  BY DEF Inv, OpeningOK, BeforeAppend, disk
<1>3. AfterAppend(L)'
  BY DEF Inv, AfterAppend, NewInfo, disk
<1>4. RollbackOK(L)' /\ ResetOK' /\ RecordOK(L)'
  BY DEF Inv, RollbackOK, ResetOK, RecordOK, disk, cmd
<1> QED
  BY <1>1, <1>2, <1>3, <1>4 DEF Inv

\* A new iterator.
LEMMA NewBlockItrStep ==
  ASSUME NEW L \in Nat, Inv(L), NEW n \in FirstBlock..MaxBlock, FirstBlock = 0, NewBlockItr(n)
  PROVE  Inv(L)'
<1>1. /\ pc \in Serving /\ height > 0 /\ UNCHANGED <<disk, mem, height, reject, pc, cmd, peak>>
      /\ itr' = [next |-> n, avail |-> mem.last, loc |-> NoLoc, got |-> None, failed |-> FALSE]
  BY DEF NewBlockItr
<1>2. PICK i : i = mem
  OBVIOUS
<1>3. ~i.none /\ i.last \in 0..MaxBlock /\ i.last \in Nat
  BY <1>1, <1>2, ServingFacts
<1>4. PICK it : it = itr'
  OBVIOUS
<1>5. it = [next |-> n, avail |-> i.last, loc |-> NoLoc, got |-> None, failed |-> FALSE]
  BY <1>1, <1>2, <1>4
<1>6. n \in 0..(MaxBlock + 1) /\ n # None /\ NoLoc \in Location
  BY BlockStoreAssumption DEF None, NoLoc, Location
<1>7. it \in Iterator
  BY <1>3, <1>5, <1>6 DEF Iterator
<1>8. ItrFits(it, files, i)
  BY <1>3, <1>5, <1>6 DEF ItrFits
<1>9. ItrOK'
  BY <1>1, <1>2, <1>4, <1>8 DEF ItrOK, disk
<1> QED
  BY <1>1, <1>4, <1>7, <1>9, ItrInv

\* The place behind a location.
LEMMA AfterIs ==
  ASSUME NEW loc \in Location
  PROVE  After(loc) \in Location /\ After(loc).file = loc.file /\ After(loc).pos = loc.pos + 1
<1>1. PICK f \in Nat, p \in Nat : loc = [file |-> f, pos |-> p]
  BY DEF Location
<1>2. After(loc) = [file |-> f, pos |-> p + 1]
  BY <1>1 DEF After
<1>3. p + 1 \in Nat
  OBVIOUS
<1> QED
  BY <1>1, <1>2, <1>3 DEF Location

\* An iterator finds the block it waited for.
LEMMA ItrNextStep ==
  ASSUME NEW L \in Nat, Inv(L), ItrNext
  PROVE  Inv(L)'
<1> DEFINE from == IF itr.loc = NoLoc THEN index[itr.next] ELSE itr.loc
           loc == StreamNext(from, Len(files))
           avail == IF itr.avail >= itr.next THEN itr.avail ELSE mem.last
<1>1. /\ itr # NoItr /\ UNCHANGED <<disk, mem, height, reject, pc, cmd, peak>>
      /\ itr.avail >= itr.next \/ mem.last >= itr.next
      /\ itr' = IF (itr.loc = NoLoc /\ itr.next \notin DOMAIN index) \/ loc \in {NoLoc, TornLoc}
                THEN [itr EXCEPT !.failed = TRUE, !.avail = avail]
                ELSE [itr EXCEPT !.next = itr.next + 1, !.avail = avail, !.loc = After(loc),
                                 !.got = BlockAt(loc)]
  BY DEF ItrNext
<1> HIDE DEF from, loc, avail
<1>2. PICK i : i = mem
  OBVIOUS
<1>3. pc \in Serving /\ ItrFits(itr, files, i) /\ itr \in Iterator
  BY <1>1, <1>2 DEF Inv, ItrOK, Typed
<1>4. /\ Layout(files, L) /\ Untorn(files) /\ Indexed(index, savepoint, files, L)
      /\ i \in Info /\ i.last \in 0..MaxBlock /\ i.last \in Nat /\ i.last < L /\ i.last =< savepoint
      /\ Len(files) \in Nat /\ Len(files) \in 1..Len(files)
  BY <1>2, <1>3, ServingFacts DEF ItrFits
<1>5. /\ itr.next # None /\ itr.avail =< i.last /\ itr.next \in {None} \cup 0..(MaxBlock + 1)
      /\ itr.avail \in 0..MaxBlock /\ itr.loc \in Location /\ itr.failed = FALSE
  BY <1>3 DEF ItrFits, Iterator
<1>6. PICK n \in Nat : n = itr.next
  BY <1>5, BlockStoreAssumption
<1>7. n =< i.last
  BY <1>1, <1>2, <1>4, <1>5, <1>6, BlockStoreAssumption
<1>8. n \in 0..(L - 1) /\ n \in 0..savepoint
  <2>1. savepoint \in Int
    BY <1>4 DEF Indexed
  <2> QED
    BY <1>4, <1>7, <2>1
<1>9. Precedes(from, files, n)
  <2>1. CASE itr.loc = NoLoc
    <3>1. Locates(index[n], files, n)
      BY <1>4, <1>8 DEF Indexed
    <3>2. from = index[n]
      BY <1>6, <2>1 DEF from
    <3> QED
      BY <3>1, <3>2 DEF Precedes
  <2>2. CASE itr.loc # NoLoc
    <3>1. from = itr.loc
      BY <2>2 DEF from
    <3>2. /\ itr.loc.file \in 1..Len(files) /\ itr.loc.pos \in 1..Size(files, itr.loc.file)
          /\ At(files, itr.loc.file, itr.loc.pos) = n - 1
      BY <1>3, <1>6, <2>2 DEF ItrFits
    <3> QED
      BY <1>5, <3>1, <3>2 DEF Precedes
  <2> QED
    BY <2>1, <2>2
<1>10. Locates(loc, files, n) /\ loc \notin {NoLoc, TornLoc}
  <2>1. PICK fr : fr = from
    OBVIOUS
  <2>2. Precedes(fr, files, n) /\ loc = StreamNext(fr, Len(files))
    BY <1>9, <2>1 DEF loc
  <2>3. \A f \in 1..Len(files) : f > Len(files) => Size(files, f) = 0
    BY <1>4
  <2> QED
    BY <1>4, <1>8, <2>2, <2>3, StreamFinds
<1>11. itr.next \in DOMAIN index
  BY <1>4, <1>6, <1>8 DEF Indexed
<1>12. PICK to : to = loc
  OBVIOUS
<1>13. /\ to \in Location /\ to.file \in 1..Len(files) /\ to.pos + 1 \in 1..Size(files, to.file)
       /\ At(files, to.file, to.pos + 1) = n /\ BlockAt(to) = n
  BY <1>10, <1>12 DEF Locates, BlockAt, At
<1>14. PICK a \in 0..MaxBlock : a = avail /\ a =< i.last
  BY <1>2, <1>4, <1>5, BlockStoreAssumption DEF avail
<1>15. PICK it : it = itr'
  OBVIOUS
<1>16. it = [next |-> n + 1, avail |-> a, loc |-> After(to), got |-> n, failed |-> FALSE]
  <2>1. it = [itr EXCEPT !.next = n + 1, !.avail = a, !.loc = After(to), !.got = n]
    BY <1>1, <1>6, <1>10, <1>11, <1>12, <1>13, <1>14, <1>15
  <2>2. PICK x1, x2, x3, x4 :
          itr = [next |-> x1, avail |-> x2, loc |-> x3, got |-> x4, failed |-> FALSE]
    BY <1>3, <1>5 DEF Iterator
  <2> QED
    BY <2>1, <2>2
<1>17. After(to) \in Location /\ After(to).file = to.file /\ After(to).pos = to.pos + 1
  BY <1>13, AfterIs
<1>18. n \in 0..MaxBlock /\ n + 1 \in 0..(MaxBlock + 1) /\ n + 1 # None /\ n = (n + 1) - 1
  BY <1>4, <1>7, BlockStoreAssumption DEF None
<1>19. it \in Iterator
  BY <1>16, <1>17, <1>18 DEF Iterator
<1>20. ItrFits(it, files, i)
  <2>1. /\ ~i.none /\ ~it.failed /\ it.next = n + 1 /\ it.avail = a /\ it.got = n
        /\ it.loc = After(to)
    BY <1>3, <1>16 DEF ItrFits
  <2> QED
    BY <1>13, <1>14, <1>17, <1>18, <2>1 DEF ItrFits
<1>21. ItrOK'
  BY <1>1, <1>2, <1>3, <1>15, <1>20 DEF ItrOK, disk
<1> QED
  BY <1>1, <1>15, <1>19, <1>21, ItrInv

\* An iterator is closed.
LEMMA CloseItrStep ==
  ASSUME NEW L \in Nat, Inv(L), CloseItr
  PROVE  Inv(L)'
<1>1. itr' = NoItr /\ UNCHANGED <<disk, mem, height, reject, pc, cmd, peak>>
  BY DEF CloseItr
<1>2. ItrOK' /\ itr' \in Iterator
  BY <1>1, NoneTyped DEF ItrOK
<1> QED
  BY <1>1, <1>2, ItrInv

\* Endorsement is allowed again.
LEMMA ResetLoopStep ==
  ASSUME NEW L \in Nat, Inv(L), ResetLoop
  PROVE  Inv(L)'
<1>1. /\ pc \in Serving /\ height >= preReset /\ preReset' = Absent /\ reject' = FALSE
      /\ UNCHANGED <<files, db, mem, height, itr, pc, cmd, peak>>
  BY DEF ResetLoop
<1>2. DiskOK(L)' /\ Typed'
  <2>1. preReset' \in {Empty} \cup 0..(MaxBlock + 1)
    BY <1>1, BlockStoreAssumption DEF Absent
  <2> QED
    BY <1>1, <2>1 DEF Inv, DiskOK, Typed, db, cmd
<1>3. OpeningOK(L)' /\ BeforeAppend(L)'
  BY <1>1 DEF Inv, OpeningOK, BeforeAppend, db
<1>4. AfterAppend(L)'
  BY <1>1 DEF Inv, AfterAppend, NewInfo, db
<1>5. RollbackOK(L)' /\ ResetOK' /\ ItrOK'
  BY <1>1 DEF Inv, RollbackOK, ResetOK, ItrOK, db, cmd
<1>6. RecordOK(L)'
  <2>1. Typed /\ (height >= peak \/ preReset >= peak)
    BY <1>1 DEF Inv, RecordOK
  <2>2. height \in Int /\ preReset \in Int /\ peak \in Int
    BY <2>1, BlockStoreAssumption DEF Typed, Empty
  <2>3. height >= peak
    BY <1>1, <2>1, <2>2
  <2> QED
    BY <1>1, <2>3 DEF RecordOK, Absent, Empty, Serving, Adding
<1> QED
  BY <1>2, <1>3, <1>4, <1>5, <1>6 DEF Inv

-----------------------------------------------------------------------------
(* The commands on the closed store. *)

\* What is known of the closed store.
LEMMA ClosedFacts ==
  ASSUME NEW L \in Nat, Inv(L), pc \notin Serving
  PROVE  /\ L \in 0..(MaxBlock + 1) /\ Layout(files, L) /\ Indexed(index, savepoint, files, L)
         /\ DiskOK(L) /\ Typed /\ itr = NoItr /\ RecordOK(L) /\ RollbackOK(L) /\ ResetOK
         /\ L >= peak \/ preReset >= peak
         /\ peak \in Nat /\ preReset \in Int /\ target \in Nat /\ Len(files) \in Nat
<1>1. /\ L \in 0..(MaxBlock + 1) /\ Layout(files, L) /\ Indexed(index, savepoint, files, L)
      /\ DiskOK(L) /\ Typed /\ itr = NoItr /\ RecordOK(L) /\ RollbackOK(L) /\ ResetOK
  BY DEF Inv, DiskOK, ItrOK
<1>2. L >= peak \/ preReset >= peak
  BY <1>1 DEF RecordOK
<1>3. peak \in Nat /\ preReset \in Int /\ target \in Nat
  BY <1>1, BlockStoreAssumption DEF Typed, Empty
<1>4. Len(files) \in Nat
  BY <1>1, LayoutTypes
<1> QED
  BY <1>1, <1>2, <1>3, <1>4

\* The last block number that a command finds.
LEMMA LastNumber ==
  ASSUME NEW L \in 0..(MaxBlock + 1), L \in Nat, Layout(files, L),
         NEW l, l = constructBlockfilesInfo.last
  PROVE  l \in 0..MaxBlock /\ l \in Nat /\ (L = 0 => l = 0) /\ (L # 0 => l = L - 1)
<1>1. PICK i : i = constructBlockfilesInfo
  OBVIOUS
<1>2. Summary(i, files, L, 0) /\ i.last = IF L = 0 THEN 0 ELSE L - 1
  BY <1>1, Constructed
<1>3. i.last \in 0..MaxBlock
  BY <1>2 DEF Summary, Info
<1> QED
  BY <1>1, <1>2, <1>3, BlockStoreAssumption

\* A rollback starts.
LEMMA RollbackStep ==
  ASSUME NEW L \in Nat, Inv(L), NEW n \in 0..MaxBlock, Rollback(n)
  PROVE  Inv(L)'
<1>1. /\ pc = "down" /\ constructBlockfilesInfo.last > n /\ target' = n /\ pc' = "rbRecord"
      /\ UNCHANGED <<disk, mem, height, reject, itr, beginFile, endFile, peak>>
  BY DEF Rollback
<1>2. /\ L \in 0..(MaxBlock + 1) /\ Layout(files, L) /\ DiskOK(L) /\ Typed /\ itr = NoItr
      /\ L >= peak \/ preReset >= peak
  BY <1>1, ClosedFacts DEF Serving, Adding
<1>3. PICK l : l = constructBlockfilesInfo.last
  OBVIOUS
<1>4. l \in Nat /\ (L = 0 => l = 0) /\ (L # 0 => l = L - 1)
  BY <1>2, <1>3, LastNumber
<1>5. n < L
  BY <1>1, <1>3, <1>4, BlockStoreAssumption
<1>6. DiskOK(L)' /\ Typed'
  BY <1>1, <1>2 DEF DiskOK, Typed, disk, Offline
<1>7. RollbackOK(L)' /\ ResetOK' /\ RecordOK(L)'
  BY <1>1, <1>2, <1>5 DEF RollbackOK, ResetOK, RecordOK, disk, Serving, Adding
<1> QED
  BY <1>1, <1>2, <1>6, <1>7, OfflineInv DEF Offline

\* A recorded height is as high as the files if it is kept, and else no higher.
LEMMA RecordHeightStep ==
  ASSUME NEW L \in Nat, Inv(L),
         RecordHeight("rbRecord", "rbWrite", "rbIndex") \/ RecordHeight("rsRecord", "rsWrite", "rsFiles")
  PROVE  Inv(L)'
<1>1. UNCHANGED <<files, db, mem, height, reject, itr, cmd, peak>> /\ pc \in {"rbRecord", "rsRecord"}
  BY DEF RecordHeight
<1>2. /\ L \in 0..(MaxBlock + 1) /\ Layout(files, L) /\ DiskOK(L) /\ Typed /\ itr = NoItr
      /\ L >= peak \/ preReset >= peak
      /\ RollbackOK(L) /\ ResetOK
      /\ peak \in Nat /\ preReset \in Int
  BY <1>1, ClosedFacts DEF Serving, Adding
<1>3. PICK l : l = constructBlockfilesInfo.last
  OBVIOUS
<1>4. l \in Nat /\ (L = 0 => l = 0) /\ (L # 0 => l = L - 1)
  BY <1>2, <1>3, LastNumber
<1>5. DiskOK(L)'
  BY <1>1, <1>2 DEF DiskOK, db
<1>6. CASE preReset = Empty
  <2>1. pc' = "down" /\ UNCHANGED preReset
    BY <1>6 DEF RecordHeight
  <2>2. Typed'
    BY <1>1, <1>2, <2>1 DEF Typed, db, cmd
  <2> QED
    BY <1>1, <1>2, <1>5, <2>1, <2>2, DownInv
<1>7. CASE preReset # Empty /\ l + 1 > preReset
  <2>1. /\ preReset' = Empty
        /\ (pc = "rbRecord" /\ pc' = "rbWrite") \/ (pc = "rsRecord" /\ pc' = "rsWrite")
    BY <1>3, <1>7 DEF RecordHeight
  <2>2. L >= peak
    BY <1>2, <1>4, <1>7
  <2>3. Typed'
    BY <1>1, <1>2, <2>1 DEF Typed, db, cmd, Offline
  <2>4. RollbackOK(L)' /\ ResetOK' /\ RecordOK(L)'
    BY <1>1, <1>2, <2>1, <2>2 DEF RollbackOK, ResetOK, RecordOK, db, cmd, Serving, Adding
  <2> QED
    BY <1>1, <1>2, <1>5, <2>1, <2>3, <2>4, OfflineInv DEF Offline
<1>8. CASE preReset # Empty /\ ~(l + 1 > preReset)
  <2>1. /\ UNCHANGED preReset
        /\ (pc = "rbRecord" /\ pc' = "rbIndex") \/ (pc = "rsRecord" /\ pc' = "rsFiles")
    BY <1>3, <1>8 DEF RecordHeight
  <2>2. preReset >= peak
    BY <1>2, <1>4, <1>8
  <2>3. Typed'
    BY <1>1, <1>2, <2>1 DEF Typed, db, cmd, Offline
  <2>4. RollbackOK(L)' /\ ResetOK' /\ RecordOK(L)'
    BY <1>1, <1>2, <2>1, <2>2 DEF RollbackOK, ResetOK, RecordOK, db, cmd, Serving, Adding
  <2> QED
    BY <1>1, <1>2, <1>5, <2>1, <2>3, <2>4, OfflineInv DEF Offline
<1> QED
  BY <1>6, <1>7, <1>8

\* The height that is written is that of the files.
LEMMA WriteHeightStep ==
  ASSUME NEW L \in Nat, Inv(L), WriteHeight("rbWrite", "rbIndex") \/ WriteHeight("rsWrite", "rsFiles")
  PROVE  Inv(L)'
<1>1. /\ UNCHANGED <<files, db, mem, height, reject, itr, cmd, peak>>
      /\ preReset' = constructBlockfilesInfo.last + 1
      /\ (pc = "rbWrite" /\ pc' = "rbIndex") \/ (pc = "rsWrite" /\ pc' = "rsFiles")
  BY DEF WriteHeight
<1>2. /\ L \in 0..(MaxBlock + 1) /\ Layout(files, L) /\ DiskOK(L) /\ Typed /\ itr = NoItr
      /\ RollbackOK(L) /\ ResetOK /\ RecordOK(L)
      /\ peak \in Nat
  BY <1>1, ClosedFacts DEF Serving, Adding
<1>3. PICK l : l = constructBlockfilesInfo.last
  OBVIOUS
<1>4. l \in 0..MaxBlock /\ l \in Nat /\ (L = 0 => l = 0) /\ (L # 0 => l = L - 1)
  BY <1>2, <1>3, LastNumber
<1>5. L >= peak
  BY <1>1, <1>2 DEF RecordOK
<1>6. preReset' >= peak /\ preReset' \in 0..(MaxBlock + 1)
  BY <1>1, <1>2, <1>3, <1>4, <1>5, BlockStoreAssumption
<1>7. DiskOK(L)' /\ Typed'
  BY <1>1, <1>2, <1>6 DEF DiskOK, Typed, db, cmd, Offline
<1>8. RollbackOK(L)' /\ ResetOK' /\ RecordOK(L)'
  BY <1>1, <1>2, <1>6 DEF RollbackOK, ResetOK, RecordOK, db, cmd, Serving, Adding
<1> QED
  BY <1>1, <1>2, <1>7, <1>8, OfflineInv DEF Offline

\* The index is shortened from its end.
LEMMA IndexedCut ==
  ASSUME NEW L \in Nat, NEW fs, NEW idx, NEW sp, Indexed(idx, sp, fs, L),
         NEW start \in Nat, start =< sp,
         NEW jdx, jdx = [b \in DOMAIN idx \ (start..sp) |-> idx[b]]
  PROVE  Indexed(jdx, start - 1, fs, L)
<1>1. sp \in Int /\ sp < L /\ DOMAIN idx = 0..sp
  BY DEF Indexed
<1>2. DOMAIN jdx = 0..(start - 1)
  BY <1>1
<1>3. ASSUME NEW n \in 0..(start - 1) PROVE Locates(jdx[n], fs, n)
  <2>1. n \in 0..sp /\ jdx[n] = idx[n]
    BY <1>1
  <2> QED
    BY <2>1 DEF Indexed
<1>4. start - 1 \in Int /\ -1 =< start - 1 /\ start - 1 < L
  BY <1>1
<1> QED
  BY <1>2, <1>3, <1>4 DEF Indexed

\* A batch of index entries goes.
LEMMA RollbackBlockIndexStep ==
  ASSUME NEW L \in Nat, Inv(L), RollbackBlockIndex
  PROVE  Inv(L)'
<1>1. pc = "rbIndex" /\ UNCHANGED <<files, info, preReset, mem, height, reject, itr, cmd, peak>>
  BY DEF RollbackBlockIndex
<1>2. /\ L \in 0..(MaxBlock + 1) /\ Layout(files, L) /\ Indexed(index, savepoint, files, L)
      /\ DiskOK(L) /\ Typed /\ itr = NoItr
      /\ RollbackOK(L) /\ RecordOK(L) /\ target \in Nat
  BY <1>1, ClosedFacts DEF Serving, Adding
<1>3. savepoint \in Int
  BY <1>2 DEF Indexed
<1>4. /\ Indexed(index, savepoint, files, L)'
      /\ pc' = "rbIndex" \/ (pc' = "rbInfo" /\ savepoint' =< target)
  <2>1. CASE savepoint =< target
    BY <1>1, <1>2, <2>1 DEF RollbackBlockIndex
  <2>2. CASE ~(savepoint =< target)
    <3>1. PICK start : start = Max({target + 1, savepoint - BatchLimit + 1})
      OBVIOUS
    <3>2. /\ index' = [b \in DOMAIN index \ (start..savepoint) |-> index[b]]
          /\ savepoint' = start - 1 /\ pc' = "rbIndex"
      BY <1>1, <2>2, <3>1 DEF RollbackBlockIndex
    <3>3. BatchLimit \in Nat /\ BatchLimit >= 1
      BY BlockStoreAssumption
    <3>4. start = IF target + 1 >= savepoint - BatchLimit + 1 THEN target + 1
                  ELSE savepoint - BatchLimit + 1
      BY <1>2, <1>3, <3>1, <3>3, MaxTwo
    <3>5. start \in Nat /\ start =< savepoint
      BY <1>2, <1>3, <2>2, <3>3, <3>4
    <3>6. PICK jdx : jdx = index'
      OBVIOUS
    <3>7. Indexed(jdx, start - 1, files, L)
      BY <1>2, <3>2, <3>5, <3>6, IndexedCut
    <3> QED
      BY <1>1, <3>2, <3>6, <3>7
  <2> QED
    BY <2>1, <2>2
<1>5. DiskOK(L)' /\ Typed'
  BY <1>1, <1>2, <1>4 DEF DiskOK, Typed, cmd, Offline
<1>6. RollbackOK(L)' /\ ResetOK' /\ RecordOK(L)'
  BY <1>1, <1>2, <1>4 DEF RollbackOK, ResetOK, RecordOK, cmd, Serving, Adding
<1> QED
  BY <1>1, <1>2, <1>4, <1>5, <1>6, OfflineInv DEF Offline

\* The summary goes, and the search for the target's file starts.
LEMMA DeleteInfoStep ==
  ASSUME NEW L \in Nat, Inv(L), DeleteInfo
  PROVE  Inv(L)'
<1>1. /\ pc = "rbInfo" /\ pc' = "rbSearch" /\ info' = NoInfo
      /\ beginFile' = 1 /\ endFile' = constructBlockfilesInfo.file
      /\ UNCHANGED <<files, index, savepoint, preReset, mem, height, reject, itr, target, peak>>
  BY DEF DeleteInfo
<1>2. /\ L \in 0..(MaxBlock + 1) /\ Layout(files, L) /\ Indexed(index, savepoint, files, L)
      /\ DiskOK(L) /\ Typed /\ itr = NoItr
      /\ RollbackOK(L) /\ RecordOK(L) /\ target \in Nat /\ Len(files) \in Nat
  BY <1>1, ClosedFacts DEF Serving, Adding
<1>3. target < L /\ savepoint =< target
  BY <1>1, <1>2 DEF RollbackOK
<1>4. 1 \in 1..Len(files) /\ 1 \in 1..Size(files, 1) /\ At(files, 1, 1) = 0
  BY <1>2, <1>3, FirstStored
<1>5. Len(files) >= 1 /\ Size(files, 1) >= 1
  <2>1. Size(files, 1) \in Nat
    BY <1>2, <1>4, LayoutTypes
  <2> QED
    BY <1>2, <1>4, <2>1
<1>6. endFile' = Len(files)
  <2>1. PICK i : i = constructBlockfilesInfo
    OBVIOUS
  <2>2. files # << >>
    BY <1>5
  <2>3. i.file = Len(files)
    BY <1>2, <2>1, <2>2, Constructed
  <2> QED
    BY <1>1, <2>1, <2>3
<1>7. DiskOK(L)'
  BY <1>1, <1>2 DEF DiskOK
<1>8. Typed'
  BY <1>1, <1>2, <1>5, <1>6, NoneTyped DEF Typed, Offline
<1>9. \A g \in 1..Len(files) : ~(g > Len(files))
  BY <1>2
<1>10. RollbackOK(L)'
  BY <1>1, <1>2, <1>3, <1>4, <1>5, <1>6, <1>9 DEF RollbackOK
<1>11. ResetOK' /\ RecordOK(L)'
  BY <1>1, <1>2 DEF ResetOK, RecordOK, Serving, Adding
<1> QED
  BY <1>1, <1>2, <1>7, <1>8, <1>10, <1>11, OfflineInv DEF Offline

\* The file in the middle is behind beginFile and no later than endFile.
LEMMA Middle ==
  ASSUME NEW b \in Nat, NEW e \in Nat, b < e, NEW s, s = b + (e - b) \div 2 + 1
  PROVE  s \in Nat /\ b < s /\ s =< e
<1>1. PICK d \in Nat : d = e - b /\ d >= 1
  OBVIOUS
<1>2. d \div 2 \in Nat /\ d \div 2 + 1 =< d
  BY <1>1
<1> QED
  BY <1>1, <1>2

\* One turn of the search keeps the target between beginFile and endFile.
LEMMA SearchFileStep ==
  ASSUME NEW L \in Nat, Inv(L), SearchFile
  PROVE  Inv(L)'
<1>1. /\ pc = "rbSearch" /\ UNCHANGED <<disk, mem, height, reject, itr, target, peak>>
  BY DEF SearchFile
<1>2. /\ L \in 0..(MaxBlock + 1) /\ Layout(files, L) /\ DiskOK(L) /\ Typed /\ itr = NoItr
      /\ RollbackOK(L) /\ RecordOK(L) /\ target \in Nat /\ Len(files) \in Nat
      /\ L >= peak \/ preReset >= peak
  BY <1>1, ClosedFacts DEF Serving, Adding
<1>3. /\ target < L /\ savepoint =< target /\ info = NoInfo
      /\ beginFile =< endFile /\ endFile =< Len(files)
      /\ Size(files, beginFile) >= 1 /\ At(files, beginFile, 1) =< target
      /\ \A g \in 1..Len(files) : g > endFile =>
            \A j \in 1..Size(files, g) : At(files, g, j) > target
  BY <1>1, <1>2 DEF RollbackOK
<1>4. beginFile \in Nat \ {0} /\ endFile \in Nat \ {0}
  BY <1>2 DEF Typed
<1>5. DiskOK(L)' /\ ResetOK'
  <2>1. pc' \in {"rbFiles", "down", "rbSearch"}
    BY <1>1 DEF SearchFile
  <2> QED
    BY <1>1, <1>2, <2>1 DEF DiskOK, ResetOK, disk
<1>6. PICK s : s = beginFile + (endFile - beginFile) \div 2 + 1
  OBVIOUS
<1>7. CASE beginFile = endFile
  <2>1. pc' = "rbFiles" /\ UNCHANGED <<beginFile, endFile>>
    BY <1>7 DEF SearchFile
  <2>2. Typed'
    BY <1>1, <1>2, <2>1 DEF Typed, disk, Offline
  <2>3. RollbackOK(L)' /\ RecordOK(L)'
    BY <1>1, <1>2, <1>3, <1>7, <2>1 DEF RollbackOK, RecordOK, disk, Serving, Adding
  <2> QED
    BY <1>1, <1>2, <1>5, <2>1, <2>2, <2>3, OfflineInv DEF Offline
<1>8. CASE beginFile # endFile /\ files[s].blocks = << >>
  <2>1. pc' = "down" /\ UNCHANGED <<beginFile, endFile>>
    BY <1>6, <1>8 DEF SearchFile
  <2>2. Typed'
    BY <1>1, <1>2, <2>1 DEF Typed, disk
  <2>3. L >= peak' \/ preReset' >= peak'
    BY <1>1, <1>2 DEF disk
  <2> QED
    BY <1>1, <1>2, <1>5, <2>1, <2>2, <2>3, DownInv
<1>9. CASE beginFile # endFile /\ files[s].blocks # << >>
  <2>1. /\ pc' = "rbSearch"
        /\ beginFile' = IF files[s].blocks[1] > target THEN beginFile ELSE s
        /\ endFile' = IF files[s].blocks[1] > target THEN s - 1
                      ELSE IF files[s].blocks[1] = target THEN s ELSE endFile
    BY <1>1, <1>6, <1>9 DEF SearchFile
  <2>2. s \in Nat /\ beginFile < s /\ s =< endFile
    <3>1. beginFile < endFile
      BY <1>3, <1>4, <1>9
    <3> QED
      BY <1>4, <1>6, <3>1, Middle
  <2>3. s \in 1..Len(files)
    BY <1>2, <1>3, <1>4, <2>2
  <2>4. PICK g \in 1..Len(files) : g = s
    BY <2>3
  <2>5. 1 \in 1..Size(files, g) /\ Size(files, g) \in Nat /\ Size(files, g) >= 1
    <3>1. PICK b \in Seq(0..MaxBlock) : b = files[g].blocks /\ Size(files, g) = Len(b)
      BY <1>2, LayoutTypes
    <3>2. b # << >>
      BY <1>9, <2>4, <3>1
    <3> QED
      BY <3>1, <3>2
  <2>6. PICK one \in 1..Size(files, g) : one = 1
    BY <2>5
  <2>7. PICK a \in Nat : a = At(files, g, one) /\ a = files[s].blocks[1]
    <3>1. At(files, g, one) \in Nat
      BY <1>2, LayoutTypes
    <3> QED
      BY <2>4, <2>6, <3>1 DEF At
  <2>8. ASSUME NEW f \in 1..Len(files), NEW j \in 1..Size(files, f), f >= g
        PROVE  At(files, f, j) >= a /\ (f > g => At(files, f, j) > a) /\ At(files, f, j) \in Nat
    <3>1. /\ At(files, g, one) \in 0..(L - 1) /\ At(files, f, j) \in 0..(L - 1)
          /\ g < f => At(files, g, one) < At(files, f, j)
          /\ g = f => At(files, g, one) = At(files, f, j) + (one - j)
      BY <1>2, Places
    <3>2. j \in Nat /\ j >= 1
      BY <1>2, LayoutTypes
    <3> QED
      BY <1>2, <2>6, <2>7, <2>8, <3>1, <3>2
  <2>9. CASE a > target
    <3>1. beginFile' = beginFile /\ endFile' = s - 1
      BY <2>1, <2>7, <2>9
    <3>2. s - 1 \in Nat \ {0} /\ beginFile =< s - 1 /\ s - 1 =< Len(files)
      BY <1>2, <1>3, <1>4, <2>2
    <3>3. ASSUME NEW f \in 1..Len(files), f > s - 1, NEW j \in 1..Size(files, f)
          PROVE  At(files, f, j) > target
      <4>1. f >= g
        BY <1>2, <2>4, <3>3
      <4>2. At(files, f, j) >= a /\ At(files, f, j) \in Nat
        BY <2>8, <4>1
      <4> QED
        BY <1>2, <2>9, <4>2
    <3>4. Typed'
      BY <1>1, <1>2, <2>1, <3>1, <3>2 DEF Typed, disk, Offline
    <3>5. RollbackOK(L)'
      BY <1>1, <1>3, <2>1, <3>1, <3>2, <3>3 DEF RollbackOK, disk
    <3>6. RecordOK(L)'
      BY <1>1, <1>2, <2>1 DEF RecordOK, disk, Serving, Adding
    <3> QED
      BY <1>1, <1>2, <1>5, <2>1, <3>4, <3>5, <3>6, OfflineInv DEF Offline
  <2>10. CASE ~(a > target)
    <3>1. beginFile' = s /\ endFile' = IF a = target THEN s ELSE endFile
      BY <2>1, <2>7, <2>10
    <3>2. /\ s \in Nat \ {0} /\ endFile' \in Nat \ {0} /\ s =< endFile' /\ endFile' =< Len(files)
      BY <1>2, <1>3, <1>4, <2>2, <3>1
    <3>3. Size(files, s) >= 1 /\ At(files, s, 1) =< target
      BY <1>2, <2>4, <2>5, <2>6, <2>7, <2>10
    <3>4. ASSUME NEW f \in 1..Len(files), f > endFile', NEW j \in 1..Size(files, f)
          PROVE  At(files, f, j) > target
      <4>1. CASE a = target
        <5>1. f > g /\ f >= g
          BY <1>2, <2>4, <3>1, <3>4, <4>1
        <5> QED
          BY <2>8, <4>1, <5>1
      <4>2. CASE a # target
        BY <1>3, <3>1, <3>4, <4>2
      <4> QED
        BY <4>1, <4>2
    <3>5. Typed'
      BY <1>1, <1>2, <2>1, <3>1, <3>2 DEF Typed, disk, Offline
    <3>6. RollbackOK(L)'
      BY <1>1, <1>3, <2>1, <3>1, <3>2, <3>3, <3>4 DEF RollbackOK, disk
    <3>7. RecordOK(L)'
      BY <1>1, <1>2, <2>1 DEF RecordOK, disk, Serving, Adding
    <3> QED
      BY <1>1, <1>2, <1>5, <2>1, <3>5, <3>6, <3>7, OfflineInv DEF Offline
  <2> QED
    BY <2>9, <2>10
<1> QED
  BY <1>7, <1>8, <1>9

\* Where block n ends.
LEMMA EndOffSet ==
  ASSUME NEW b, NEW n, \E i \in 1..Len(b) : b[i] = n
  PROVE  /\ calculateEndOffSet(b, n) \in 1..Len(b)
         /\ b[calculateEndOffSet(b, n)] = n
BY DEF calculateEndOffSet

\* The last file keeps its first h blocks, and is not torn.
LEMMA CutFile ==
  ASSUME NEW L \in Nat, NEW fs, Layout(fs, L), fs # << >>, NEW h \in 1..Size(fs, Len(fs)),
         NEW gs, gs = [fs EXCEPT ![Len(fs)] =
                        [blocks |-> SubSeq(fs[Len(fs)].blocks, 1, h), torn |-> FALSE]]
  PROVE  SameBefore(gs, fs) /\ gs[Len(fs)].blocks = SubSeq(fs[Len(fs)].blocks, 1, h)
<1>1. fs \in Seq(File) /\ Len(fs) \in Nat
  BY LayoutTypes
<1>2. Len(fs) \in 1..Len(fs)
  BY <1>1
<1>3. PICK b \in Seq(0..MaxBlock) : b = fs[Len(fs)].blocks /\ Size(fs, Len(fs)) = Len(b)
  BY <1>2, LayoutTypes
<1>4. PICK e : e = [blocks |-> SubSeq(b, 1, h), torn |-> FALSE]
  OBVIOUS
<1>5. gs = [fs EXCEPT ![Len(fs)] = e]
  BY <1>3, <1>4
<1>6. e \in File /\ e.blocks = SubSeq(b, 1, h)
  <2>1. h \in 0..Len(b)
    BY <1>3
  <2>2. SubSeq(b, 1, h) \in Seq(0..MaxBlock)
    BY <2>1, Prefix
  <2> QED
    BY <1>4, <2>2 DEF File
<1>7. SameBefore(gs, fs) /\ gs[Len(fs)] = e
  BY <1>1, <1>5, <1>6, ReplaceLast
<1> QED
  BY <1>3, <1>6, <1>7

\* The last file is cut off behind block n.
LEMMA CutBehind ==
  ASSUME NEW L \in Nat, NEW fs, Layout(fs, L), NEW gs, SameBefore(gs, fs),
         NEW n \in Nat, NEW h \in 1..Size(fs, Len(fs)), At(fs, Len(fs), h) = n,
         gs[Len(fs)].blocks = SubSeq(fs[Len(fs)].blocks, 1, h)
  PROVE  n < L /\ Extends(fs, gs) /\ Layout(gs, n + 1)
<1>1. fs \in Seq(File) /\ Len(fs) \in Nat /\ fs # << >>
  BY LayoutTypes DEF SameBefore
<1>2. PICK N \in Nat : N = Len(fs) /\ N \in 1..Len(fs) /\ N >= 1
  BY <1>1
<1>3. PICK k \in Nat : k = Size(fs, N) /\ k = Size(fs, Len(fs))
  BY <1>2, LayoutTypes
<1>4. k >= 1 /\ h \in Nat /\ h \in 1..k /\ At(fs, N, h) = n /\ h \in 0..Size(fs, Len(fs))
  BY <1>2, <1>3
<1>5. At(fs, N, h) = L - 1 - (k - h) /\ L >= 1
  BY <1>2, <1>3, <1>4, LastBlock
<1>6. Extends(fs, gs) /\ \E M \in Nat : M + Size(fs, Len(fs)) = L + h /\ Layout(gs, M)
  BY <1>4, CutLast
<1>7. PICK M \in Nat : M + k = L + h /\ Layout(gs, M)
  BY <1>3, <1>6
<1>8. M = n + 1 /\ n < L
  BY <1>4, <1>5, <1>7
<1> QED
  BY <1>6, <1>7, <1>8

\* Removing the last file.
LEMMA RemoveLast ==
  ASSUME NEW fs \in Seq(File), NEW N \in Nat, N = Len(fs), N >= 2, NEW gs, gs = SubSeq(fs, 1, N - 1)
  PROVE  gs \in Seq(File) /\ Len(gs) = N - 1 /\ \A f \in 1..(N - 1) : gs[f] = fs[f]
<1>1. PICK k \in 0..Len(fs) : k = N - 1
  OBVIOUS
<1>2. SubSeq(fs, 1, k) \in Seq(File)
  BY Prefix
<1>3. Len(SubSeq(fs, 1, k)) = k /\ \A f \in 1..k : SubSeq(fs, 1, k)[f] = fs[f]
  OBVIOUS
<1> QED
  BY <1>1, <1>2, <1>3

\* Files behind f are removed one at a time; then f is cut off behind block n.
LEMMA Shortened ==
  ASSUME NEW L \in Nat, Layout(files, L), NEW f \in 1..Len(files), NEW n \in Nat, ShortenFiles(f, n),
         n < L, \A g \in 1..Len(files) : g > f => \A j \in 1..Size(files, g) : At(files, g, j) > n,
         1 \in 1..Size(files, f), At(files, f, 1) =< n, NEW gs, gs = files'
  PROVE  \E M \in 0..L :
           /\ n < M /\ Layout(gs, M) /\ Extends(files, gs)
           /\ \/ /\ pc' = pc /\ Len(files) > f /\ Len(gs) + 1 = Len(files)
                 /\ \A g \in 1..Len(gs) : gs[g] = files[g]
                 /\ Size(files, Len(files)) = 0 => M = L
              \/ pc' = "down" /\ M = n + 1 /\ Len(gs) = Len(files)
<1>1. files \in Seq(File) /\ Len(files) \in Nat
  BY LayoutTypes
<1>2. PICK N \in Nat : N = Len(files) /\ N \in 1..Len(files)
  BY <1>1
<1>3. Size(files, N) \in Nat
  BY <1>2, LayoutTypes
<1>4. CASE Len(files) > f
  <2>1. pc' = pc /\ gs = SubSeq(files, 1, N - 1) /\ N >= 2
    BY <1>1, <1>2, <1>4 DEF ShortenFiles
  <2>2. gs \in Seq(File) /\ Len(gs) = N - 1 /\ \A g \in 1..(N - 1) : gs[g] = files[g]
    BY <1>1, <1>2, <2>1, RemoveLast
  <2>3. /\ Extends(files, gs)
        /\ \E M \in 0..L :
             /\ Layout(gs, M)
             /\ Size(files, N) = 0 => M = L
             /\ Size(files, N) >= 1 => M = At(files, N, 1)
    <3>1. PICK fs : fs = files
      OBVIOUS
    <3>2. N >= 2
      BY <2>1
    <3>3. Layout(fs, L) /\ N = Len(fs) /\ gs \in Seq(File) /\ Len(gs) = N - 1
          /\ \A g \in 1..(N - 1) : gs[g] = fs[g]
      BY <1>2, <2>2, <3>1
    <3>4. /\ Extends(fs, gs)
          /\ \E M \in 0..L :
               /\ Layout(gs, M)
               /\ Size(fs, N) = 0 => M = L
               /\ Size(fs, N) >= 1 => M = At(fs, N, 1)
      BY <3>2, <3>3, DropLast
    <3> QED
      BY <3>1, <3>4
  <2>4. PICK M \in 0..L : /\ Layout(gs, M)
                          /\ Size(files, N) = 0 => M = L
                          /\ Size(files, N) >= 1 => M = At(files, N, 1)
    BY <2>3
  <2>5. n < M
    <3>1. CASE Size(files, N) = 0
      BY <2>4, <3>1
    <3>2. CASE Size(files, N) >= 1
      <4>1. PICK j \in 1..Size(files, N) : j = 1
        BY <1>3, <3>2
      <4>2. At(files, N, j) > n
        BY <1>2, <1>4
      <4> QED
        BY <2>4, <3>2, <4>1, <4>2
    <3> QED
      BY <1>3, <3>1, <3>2
  <2>6. Len(gs) + 1 = Len(files) /\ 1..Len(gs) = 1..(N - 1)
    BY <1>2, <2>1, <2>2
  <2> QED
    BY <1>2, <1>4, <2>1, <2>2, <2>3, <2>4, <2>5, <2>6
<1>5. CASE ~(Len(files) > f)
  <2>1. f = Len(files)
    BY <1>1, <1>5
  <2>2. /\ pc' = "down"
        /\ gs = [files EXCEPT ![Len(files)] =
                   [blocks |-> SubSeq(files[Len(files)].blocks, 1,
                                      calculateEndOffSet(files[Len(files)].blocks, n)),
                    torn |-> FALSE]]
    BY <1>5, <2>1 DEF ShortenFiles
  <2>3. \E i \in 1..Size(files, Len(files)) : At(files, Len(files), i) = n
    <3>1. n \in 0..(L - 1)
      OBVIOUS
    <3>2. PICK g \in 1..Len(files) : \E i \in 1..Size(files, g) : At(files, g, i) = n
      BY <3>1 DEF Layout
    <3>3. PICK i \in 1..Size(files, g) : At(files, g, i) = n
      BY <3>2
    <3>4. PICK j \in 1..Size(files, f) : j = 1
      OBVIOUS
    <3>5. g < f => At(files, g, i) < At(files, f, j)
      BY Places
    <3>6. At(files, f, j) \in Nat
      BY LayoutTypes
    <3>7. g = f
      BY <1>1, <2>1, <3>3, <3>4, <3>5, <3>6
    <3> QED
      BY <2>1, <3>3, <3>7
  <2>4. PICK h : h = calculateEndOffSet(files[Len(files)].blocks, n)
    OBVIOUS
  <2>5. h \in 1..Size(files, Len(files)) /\ At(files, Len(files), h) = n
    <3>1. PICK b : b = files[Len(files)].blocks
      OBVIOUS
    <3>2. \E i \in 1..Len(b) : b[i] = n
      BY <2>3, <3>1 DEF Size, At
    <3>3. h \in 1..Len(b) /\ b[h] = n
      BY <2>4, <3>1, <3>2, EndOffSet
    <3> QED
      BY <3>1, <3>3 DEF Size, At
  <2>6. gs = [files EXCEPT ![Len(files)] =
                [blocks |-> SubSeq(files[Len(files)].blocks, 1, h), torn |-> FALSE]]
    BY <2>2, <2>4
  <2>7. SameBefore(gs, files) /\ gs[Len(files)].blocks = SubSeq(files[Len(files)].blocks, 1, h)
    <3>1. files # << >>
      BY <1>1, <1>2
    <3> QED
      BY <2>5, <2>6, <3>1, CutFile
  <2>8. n < L /\ Extends(files, gs) /\ Layout(gs, n + 1)
    BY <2>5, <2>7, CutBehind
  <2>9. PICK M \in 0..L : M = n + 1
    OBVIOUS
  <2>10. Len(gs) = Len(files) /\ n < M
    BY <2>7, <2>9 DEF SameBefore
  <2> QED
    BY <2>2, <2>8, <2>9, <2>10
<1> QED
  BY <1>4, <1>5

\* A rollback removes a file, or cuts off the last one that is left.
LEMMA RollbackBlockFilesStep ==
  ASSUME NEW L \in Nat, Inv(L), RollbackBlockFiles
  PROVE  \E M \in 0..L : 0 < M /\ Inv(M)'
<1>1. /\ pc = "rbFiles" /\ ShortenFiles(beginFile, target)
      /\ UNCHANGED <<db, preReset, mem, height, reject, itr, cmd, peak>>
  BY DEF RollbackBlockFiles
<1>2. /\ L \in 0..(MaxBlock + 1) /\ Layout(files, L) /\ Indexed(index, savepoint, files, L)
      /\ DiskOK(L) /\ Typed /\ itr = NoItr
      /\ RollbackOK(L) /\ RecordOK(L) /\ target \in Nat /\ Len(files) \in Nat
  BY <1>1, ClosedFacts DEF Serving, Adding
<1>3. /\ target < L /\ savepoint =< target /\ info = NoInfo /\ preReset >= peak
      /\ beginFile = endFile /\ endFile =< Len(files)
      /\ Size(files, beginFile) >= 1 /\ At(files, beginFile, 1) =< target
      /\ \A g \in 1..Len(files) : g > endFile =>
            \A j \in 1..Size(files, g) : At(files, g, j) > target
  BY <1>1, <1>2 DEF RollbackOK, RecordOK
<1>4. PICK f \in 1..Len(files) : f = beginFile /\ f = endFile
  BY <1>2, <1>3 DEF Typed
<1>5. 1 \in 1..Size(files, f) /\ At(files, f, 1) =< target
  <2>1. Size(files, f) \in Nat
    BY <1>2, LayoutTypes
  <2> QED
    BY <1>3, <1>4, <2>1
<1>6. PICK gs : gs = files'
  OBVIOUS
<1>7. PICK M \in 0..L :
           /\ target < M /\ Layout(gs, M) /\ Extends(files, gs)
           /\ \/ /\ pc' = pc /\ Len(files) > f /\ Len(gs) + 1 = Len(files)
                 /\ \A g \in 1..Len(gs) : gs[g] = files[g]
              \/ pc' = "down"
  BY <1>1, <1>2, <1>3, <1>4, <1>5, <1>6, Shortened
<1>8. M \in Nat /\ M \in 0..(MaxBlock + 1) /\ 0 < M
  BY <1>2, <1>7, BlockStoreAssumption
<1>9. Indexed(index, savepoint, gs, M)
  <2>1. savepoint < M /\ savepoint \in Int
    BY <1>2, <1>3, <1>7 DEF Indexed
  <2> QED
    BY <1>2, <1>7, <1>8, <2>1, IndexedShrinks
<1>10. DiskOK(M)'
  BY <1>1, <1>3, <1>6, <1>7, <1>8, <1>9 DEF DiskOK, db
<1>11. CASE pc' = "down"
  <2>1. Typed'
    BY <1>1, <1>2, <1>11 DEF Typed, db, cmd
  <2>2. Inv(M)'
    BY <1>1, <1>2, <1>3, <1>8, <1>10, <1>11, <2>1, DownInv
  <2> QED
    BY <1>8, <2>2
<1>12. CASE pc' = pc /\ Len(files) > f /\ Len(gs) + 1 = Len(files) /\ \A g \in 1..Len(gs) : gs[g] = files[g]
  <2>1. Typed'
    BY <1>1, <1>2, <1>12 DEF Typed, db, cmd
  <2>2. Len(gs) \in Nat
    BY <1>7, <1>8, LayoutTypes
  <2>3. f \in 1..Len(gs) /\ f =< Len(gs)
    BY <1>2, <1>12, <2>2
  <2>4. Size(gs, f) >= 1 /\ At(gs, f, 1) =< target
    BY <1>3, <1>4, <1>12, <2>3 DEF Size, At
  <2>5. ASSUME NEW g \in 1..Len(gs), g > f, NEW j \in 1..Size(gs, g) PROVE At(gs, g, j) > target
    <3>1. gs[g] = files[g] /\ g \in 1..Len(files)
      BY <1>2, <1>12, <2>2
    <3>2. Size(gs, g) = Size(files, g) /\ At(gs, g, j) = At(files, g, j)
      BY <3>1 DEF Size, At
    <3> QED
      BY <1>3, <1>4, <2>5, <3>1, <3>2
  <2>6. RollbackOK(M)'
    BY <1>1, <1>3, <1>4, <1>6, <1>7, <1>12, <2>3, <2>4, <2>5 DEF RollbackOK, db, cmd
  <2>7. ResetOK' /\ RecordOK(M)'
    BY <1>1, <1>3, <1>12 DEF ResetOK, RecordOK, Serving, Adding
  <2>8. Inv(M)'
    BY <1>1, <1>2, <1>8, <1>10, <1>12, <2>1, <2>6, <2>7, OfflineInv DEF Offline
  <2> QED
    BY <1>8, <2>8
<1> QED
  BY <1>7, <1>11, <1>12

\* A reset starts.
LEMMA StartResetStep ==
  ASSUME NEW L \in Nat, Inv(L), StartReset
  PROVE  Inv(L)'
<1>1. pc = "down" /\ pc' = "rsIndex" /\ UNCHANGED <<disk, mem, height, reject, itr, cmd, peak>>
  BY DEF StartReset
<1>2. DiskOK(L) /\ Typed /\ itr = NoItr /\ (L >= peak \/ preReset >= peak)
  BY <1>1, ClosedFacts DEF Serving, Adding
<1>3. DiskOK(L)' /\ Typed'
  BY <1>1, <1>2 DEF DiskOK, Typed, disk, cmd, Offline
<1>4. RollbackOK(L)' /\ ResetOK' /\ RecordOK(L)'
  BY <1>1, <1>2 DEF RollbackOK, ResetOK, RecordOK, disk, Serving, Adding
<1> QED
  BY <1>1, <1>2, <1>3, <1>4, OfflineInv DEF Offline

\* Index and summary are dropped.
LEMMA DropIndexStep ==
  ASSUME NEW L \in Nat, Inv(L), DropIndex("rsIndex", "rsRecord") \/ DropIndex("down", "down")
  PROVE  Inv(L)'
<1>1. /\ UNCHANGED <<files, preReset, mem, height, reject, itr, cmd, peak>>
      /\ index' = [n \in {} |-> NoLoc] /\ savepoint' = None /\ info' = NoInfo
      /\ (pc = "rsIndex" /\ pc' = "rsRecord") \/ (pc = "down" /\ pc' = "down")
  BY DEF DropIndex
<1>2. /\ L \in 0..(MaxBlock + 1) /\ Layout(files, L) /\ DiskOK(L) /\ Typed /\ itr = NoItr
      /\ L >= peak \/ preReset >= peak
  BY <1>1, ClosedFacts DEF Serving, Adding
<1>3. Indexed(index, savepoint, files, L)'
  <2>1. DOMAIN index' = {} /\ 0..(-1) = {} /\ savepoint' = -1
    BY <1>1 DEF None
  <2> QED
    BY <2>1 DEF Indexed
<1>4. DiskOK(L)' /\ Typed'
  BY <1>1, <1>2, <1>3, NoneTyped DEF DiskOK, Typed, cmd, Offline
<1>5. CASE pc' = "down"
  BY <1>1, <1>2, <1>4, <1>5, DownInv
<1>6. CASE pc' = "rsRecord"
  <2>1. RollbackOK(L)' /\ ResetOK' /\ RecordOK(L)'
    BY <1>1, <1>2, <1>6 DEF RollbackOK, ResetOK, RecordOK, Serving, Adding
  <2> QED
    BY <1>1, <1>2, <1>4, <1>6, <2>1, OfflineInv DEF Offline
<1> QED
  BY <1>1, <1>5, <1>6

\* A reset removes a file, or cuts off the first one behind the genesis block.
LEMMA ResetToGenesisBlkStep ==
  ASSUME NEW L \in Nat, Inv(L), ResetToGenesisBlk
  PROVE  \E M \in 0..L : (M = L \/ 0 < M) /\ Inv(M)'
<1>1. pc = "rsFiles" /\ UNCHANGED <<db, preReset, mem, height, reject, itr, cmd, peak>>
  BY DEF ResetToGenesisBlk
<1>2. /\ L \in 0..(MaxBlock + 1) /\ Layout(files, L) /\ Indexed(index, savepoint, files, L)
      /\ DiskOK(L) /\ Typed /\ itr = NoItr /\ ResetOK /\ RecordOK(L) /\ Len(files) \in Nat
  BY <1>1, ClosedFacts DEF Serving, Adding
<1>3. savepoint = -1 /\ info = NoInfo /\ preReset >= peak
  BY <1>1, <1>2 DEF ResetOK, RecordOK, None
<1>4. CASE files = << >> \/ files[1].blocks = << >>
  <2>1. pc' = "down" /\ UNCHANGED files
    BY <1>4 DEF ResetToGenesisBlk
  <2>2. DiskOK(L)' /\ Typed'
    BY <1>1, <1>2, <2>1 DEF DiskOK, Typed, db, cmd
  <2>3. Inv(L)'
    BY <1>1, <1>2, <1>3, <2>1, <2>2, DownInv
  <2> QED
    BY <2>3
<1>5. CASE ~(files = << >> \/ files[1].blocks = << >>)
  <2>1. ShortenFiles(1, 0)
    BY <1>5 DEF ResetToGenesisBlk
  <2>2. PICK f \in 1..Len(files) : f = 1
    <3>1. files \in Seq(File)
      BY <1>2, LayoutTypes
    <3> QED
      BY <1>5, <3>1
  <2>3. 1 \in 1..Size(files, f)
    <3>1. PICK b \in Seq(0..MaxBlock) : b = files[f].blocks /\ Size(files, f) = Len(b)
      BY <1>2, LayoutTypes
    <3> QED
      BY <1>5, <2>2, <3>1
  <2>4. PICK one \in 1..Size(files, f) : one = 1
    BY <2>3
  <2>5. At(files, f, one) \in 0..(L - 1)
    BY <1>2, Places
  <2>6. L >= 1
    BY <2>5
  <2>7. At(files, f, one) = 0
    BY <1>2, <2>2, <2>4, <2>6, FirstStored
  <2>8. ASSUME NEW g \in 1..Len(files), g > f, NEW j \in 1..Size(files, g)
        PROVE  At(files, g, j) > 0
    <3>1. f < g => At(files, f, one) < At(files, g, j)
      BY <1>2, Places
    <3>2. At(files, g, j) \in Nat
      BY <1>2, LayoutTypes
    <3> QED
      BY <2>7, <2>8, <3>1, <3>2
  <2>9. PICK gs : gs = files'
    OBVIOUS
  <2>10. PICK n \in Nat : n = 0
    OBVIOUS
  <2>11. ShortenFiles(f, n) /\ n < L /\ At(files, f, 1) =< n
         /\ \A g \in 1..Len(files) : g > f => \A j \in 1..Size(files, g) : At(files, g, j) > n
    BY <2>1, <2>2, <2>4, <2>6, <2>7, <2>8, <2>10
  <2>12. PICK M \in 0..L :
            /\ n < M /\ Layout(gs, M) /\ Extends(files, gs) /\ (pc' = pc \/ pc' = "down")
    BY <1>2, <2>3, <2>9, <2>11, Shortened
  <2>13. M \in Nat /\ M \in 0..(MaxBlock + 1) /\ 0 < M /\ savepoint < M
    BY <1>2, <1>3, <2>10, <2>12, BlockStoreAssumption
  <2>14. Indexed(index, savepoint, gs, M)
    BY <1>2, <2>12, <2>13, IndexedShrinks
  <2>15. DiskOK(M)' /\ Typed'
    BY <1>1, <1>2, <1>3, <2>9, <2>12, <2>13, <2>14 DEF DiskOK, Typed, db, cmd
  <2>16. CASE pc' = "down"
    <3>1. Inv(M)'
      BY <1>1, <1>2, <1>3, <2>13, <2>15, <2>16, DownInv
    <3> QED
      BY <2>13, <3>1
  <2>17. CASE pc' = pc
    <3>1. RollbackOK(M)' /\ ResetOK' /\ RecordOK(M)'
      BY <1>1, <1>2, <1>3, <2>17 DEF RollbackOK, ResetOK, RecordOK, db, Serving, Adding
    <3>2. Inv(M)'
      BY <1>1, <1>2, <2>13, <2>15, <2>17, <3>1, OfflineInv DEF Offline
    <3> QED
      BY <2>13, <3>2
  <2> QED
    BY <2>12, <2>16, <2>17
<1> QED
  BY <1>4, <1>5

\* Nothing changes.
LEMMA StutterStep ==
  ASSUME NEW L \in Nat, Inv(L), UNCHANGED vars
  PROVE  Inv(L)'
<1>1. UNCHANGED <<disk, mem, height, reject, pc, cmd, peak>> /\ itr' = itr
  BY DEF vars
<1>2. ItrOK' /\ itr' \in Iterator
  BY <1>1 DEF Inv, ItrOK, Typed, disk
<1> QED
  BY <1>1, <1>2, ItrInv

-----------------------------------------------------------------------------
(* The properties. *)

\* A step that neither appends a block nor removes one.
Quiet ==
  \/ LoadInfo \/ OpenFile \/ SyncIndex
  \/ AddBlock \/ NextFile \/ SaveNextFile \/ SaveInfo \/ IndexNewBlock \/ UpdateBlockfilesInfo
  \/ \E n \in FirstBlock..MaxBlock : NewBlockItr(n)
  \/ ItrNext \/ CloseItr
  \/ ResetLoop
  \/ \E n \in 0..MaxBlock : Rollback(n)
  \/ RecordHeight("rbRecord", "rbWrite", "rbIndex") \/ RecordHeight("rsRecord", "rsWrite", "rsFiles")
  \/ WriteHeight("rbWrite", "rbIndex") \/ WriteHeight("rsWrite", "rsFiles")
  \/ RollbackBlockIndex \/ DeleteInfo \/ SearchFile
  \/ StartReset
  \/ DropIndex("rsIndex", "rsRecord") \/ DropIndex("down", "down")

\* The other ones.
LEMMA NextCases ==
  ASSUME [Next]_vars
  PROVE  \/ Quiet \/ LoadHeader \/ AppendBlock \/ SaveInfoFails \/ UpdateBlockchainInfo \/ Crash
         \/ RollbackBlockFiles \/ ResetToGenesisBlk \/ UNCHANGED vars
BY DEF Next, OpenSteps, AddSteps, OfflineCommands, Quiet

\* A quiet step keeps the invariant and the number of blocks.
LEMMA QuietStep ==
  ASSUME NEW L \in Nat, Inv(L), FirstBlock = 0, Quiet
  PROVE  Inv(L)'
<1>1. CASE LoadInfo \/ OpenFile \/ SyncIndex
  BY <1>1, LoadInfoStep, OpenFileStep, SyncIndexStep
<1>2. CASE \/ AddBlock \/ NextFile \/ SaveNextFile \/ SaveInfo \/ IndexNewBlock
           \/ UpdateBlockfilesInfo
  BY <1>2, AddBlockStep, NextFileStep, SaveNextFileStep, SaveInfoStep, IndexNewBlockStep,
     UpdateBlockfilesInfoStep
<1>3. CASE \/ \E n \in FirstBlock..MaxBlock : NewBlockItr(n)
           \/ ItrNext \/ CloseItr \/ ResetLoop
  BY <1>3, NewBlockItrStep, ItrNextStep, CloseItrStep, ResetLoopStep
<1>4. CASE \/ \E n \in 0..MaxBlock : Rollback(n)
           \/ RecordHeight("rbRecord", "rbWrite", "rbIndex")
           \/ RecordHeight("rsRecord", "rsWrite", "rsFiles")
           \/ WriteHeight("rbWrite", "rbIndex") \/ WriteHeight("rsWrite", "rsFiles")
  BY <1>4, RollbackStep, RecordHeightStep, WriteHeightStep
<1>5. CASE \/ RollbackBlockIndex \/ DeleteInfo \/ SearchFile \/ StartReset
           \/ DropIndex("rsIndex", "rsRecord") \/ DropIndex("down", "down")
  BY <1>5, RollbackBlockIndexStep, DeleteInfoStep, SearchFileStep, StartResetStep, DropIndexStep
<1> QED
  BY <1>1, <1>2, <1>3, <1>4, <1>5 DEF Quiet

\* Every step keeps the invariant.
LEMMA NextInv ==
  ASSUME IInv, FirstBlock = 0, [Next]_vars
  PROVE  IInv'
<1>1. PICK L \in Nat : Inv(L)
  BY DEF IInv
<1>2. CASE Quiet \/ LoadHeader \/ UpdateBlockchainInfo \/ Crash \/ UNCHANGED vars
  <2>1. Inv(L)'
    BY <1>1, <1>2, QuietStep, LoadHeaderStep, UpdateBlockchainInfoStep, CrashStep, StutterStep
  <2> QED
    BY <2>1 DEF IInv
<1>3. CASE AppendBlock
  <2>1. Inv(L + 1)' /\ L + 1 \in Nat
    BY <1>1, <1>3, AppendBlockStep
  <2> QED
    BY <2>1 DEF IInv
<1>4. CASE SaveInfoFails
  <2>1. \E M \in Nat : Inv(M)'
    BY <1>1, <1>4, SaveInfoFailsStep
  <2> QED
    BY <2>1 DEF IInv
<1>5. CASE RollbackBlockFiles \/ ResetToGenesisBlk
  <2>1. PICK M \in 0..L : Inv(M)'
    BY <1>1, <1>5, RollbackBlockFilesStep, ResetToGenesisBlkStep
  <2>2. M \in Nat
    OBVIOUS
  <2> QED
    BY <2>1, <2>2 DEF IInv
<1> QED
  BY <1>2, <1>3, <1>4, <1>5, NextCases

(***************************************************************************)
(* In a store that was not imported from a snapshot the invariant always   *)
(* holds: the files hold blocks 0 to L - 1 in order, the saved summary is  *)
(* absent or at most one block behind, the index is right as far as it     *)
(* goes, whatever step a crash interrupts.                                 *)
(***************************************************************************)
THEOREM Invariance == ASSUME FirstBlock = 0 PROVE Spec => []IInv
<1>1. Init => IInv
  BY InitInv DEF IInv
<1>2. IInv /\ [Next]_vars => IInv'
  BY NextInv
<1> QED
  BY <1>1, <1>2, PTL DEF Spec

\* Every variable of the store has its type, for any block sizes, file size and batch limit.
THEOREM TypeCorrect == ASSUME FirstBlock = 0 PROVE Spec => []TypeOK
<1>1. IInv => TypeOK
  <2> SUFFICES ASSUME IInv PROVE TypeOK
    OBVIOUS
  <2>1. PICK L \in Nat : Inv(L)
    BY DEF IInv
  <2>2. /\ L \in 0..(MaxBlock + 1) /\ files \in Seq(File) /\ Typed
        /\ Indexed(index, savepoint, files, L)
    BY <2>1 DEF Inv, DiskOK, Layout
  <2>3. /\ savepoint \in Int /\ -1 =< savepoint /\ savepoint < L /\ DOMAIN index = 0..savepoint
        /\ \A n \in DOMAIN index : index[n] \in Location
    BY <2>2 DEF Indexed, Locates
  <2>4. DOMAIN index \subseteq 0..MaxBlock /\ savepoint \in {None} \cup 0..MaxBlock
    BY <2>2, <2>3, BlockStoreAssumption DEF None
  <2> QED
    BY <2>2, <2>3, <2>4 DEF TypeOK, Typed, Iterator
<1> QED
  BY Invariance, <1>1, PTL

\* The store can always be opened: after a crash at any point of adding a block, of opening or
\* of an offline command, syncIndex and the load of the last header find what they need.
THEOREM AlwaysOpens == ASSUME FirstBlock = 0 PROVE Spec => []OpenNeverFails
<1>1. IInv => OpenNeverFails
  BY DEF IInv, Inv, Typed, OpenNeverFails, Opening, Serving, Adding, Offline
<1> QED
  BY Invariance, <1>1, PTL

\* Every block below the reported height can be read through the index, whatever crashes,
\* recoveries, rollbacks and resets came before.
THEOREM AllReadable == ASSUME FirstBlock = 0 PROVE Spec => []BlocksReadable
<1>1. ASSUME FirstBlock = 0, IInv PROVE BlocksReadable
  <2> SUFFICES ASSUME pc \in Serving, NEW n \in FirstBlock..(height - 1)
               PROVE  n \in DOMAIN index /\ IsBlock(index[n]) /\ BlockAt(index[n]) = n
    BY DEF BlocksReadable
  <2>1. PICK L \in Nat : Inv(L)
    BY <1>1 DEF IInv
  <2>2. PICK i : i = mem
    OBVIOUS
  <2>3. /\ Layout(files, L) /\ Indexed(index, savepoint, files, L) /\ Typed
        /\ i.last \in Nat
        /\ height > 0 => ~i.none
        /\ ~i.none => i.last =< savepoint
        /\ ~i.none => height =< i.last + 1
    BY <2>1, <2>2, ServingFacts
  <2>4. savepoint \in Int /\ DOMAIN index = 0..savepoint /\ height \in Nat
    BY <2>3, BlockStoreAssumption DEF Indexed, Typed
  <2>5. n \in 0..savepoint
    BY <1>1, <2>3, <2>4
  <2>6. PICK loc : loc = index[n]
    OBVIOUS
  <2>7. Locates(loc, files, n)
    BY <2>3, <2>5, <2>6 DEF Indexed
  <2>8. /\ loc.file \in 1..Len(files) /\ loc.pos + 1 \in 1..Size(files, loc.file) /\ loc.pos \in Nat
        /\ At(files, loc.file, loc.pos + 1) = n
    BY <2>7 DEF Locates, Location
  <2>9. Size(files, loc.file) \in Nat /\ Size(files, loc.file) = Len(files[loc.file].blocks)
    BY <2>3, <2>8, LayoutTypes
  <2>10. IsBlock(loc) /\ BlockAt(loc) = n
    BY <2>8, <2>9 DEF IsBlock, BlockAt, At
  <2> QED
    BY <2>4, <2>5, <2>6, <2>10
<1> QED
  BY Invariance, <1>1, PTL

\* An iterator beside the committer never fails and never skips a block, at any file border.
THEOREM InSequence == ASSUME FirstBlock = 0 PROVE Spec => []ItrInSequence
<1>1. IInv => ItrInSequence
  <2>1. ItrOK => ItrInSequence
    BY DEF ItrOK, ItrFits, ItrInSequence, NoItr
  <2> QED
    BY <2>1 DEF IInv, Inv
<1> QED
  BY Invariance, <1>1, PTL

\* A peer endorses only if its ledger is as high as it was before the last reset or rollback.
THEOREM EndorsesRebuilt == ASSUME FirstBlock = 0 PROVE Spec => []EndorsesOnlyRebuilt
<1>1. IInv => EndorsesOnlyRebuilt
  <2> SUFFICES ASSUME IInv, pc \in Serving, ~reject PROVE height >= peak
    BY DEF EndorsesOnlyRebuilt
  <2>1. PICK L \in Nat : RecordOK(L) /\ Typed
    BY DEF IInv, Inv
  <2>2. (height >= peak \/ preReset >= peak) /\ preReset = 0
    BY <2>1 DEF RecordOK, Absent
  <2>3. height \in Nat /\ peak \in Nat
    BY <2>1, BlockStoreAssumption DEF Typed
  <2> QED
    BY <2>2, <2>3
<1> QED
  BY Invariance, <1>1, PTL

-----------------------------------------------------------------------------
(* The blocks on disk. *)

\* The blocks in the files are 0 to L - 1.
LEMMA StoredIs ==
  ASSUME NEW L \in Nat, Layout(files, L)
  PROVE  Stored = 0..(L - 1)
<1>1. Stored = UNION {{At(files, f, i) : i \in 1..Size(files, f)} : f \in 1..Len(files)}
  BY DEF Stored, At, Size
<1>2. \A n \in Stored : n \in 0..(L - 1)
  BY <1>1 DEF Layout
<1>3. ASSUME NEW n \in 0..(L - 1) PROVE n \in Stored
  <2>1. PICK f \in 1..Len(files) : \E i \in 1..Size(files, f) : At(files, f, i) = n
    BY DEF Layout
  <2>2. n \in {At(files, f, i) : i \in 1..Size(files, f)}
    BY <2>1
  <2> QED
    BY <1>1, <2>1, <2>2
<1> QED
  BY <1>2, <1>3

\* After opening, the summary names the last block that is stored.
THEOREM NamesLastBlock == ASSUME FirstBlock = 0 PROVE Spec => []InfoNamesLastBlock
<1>1. ASSUME FirstBlock = 0, IInv PROVE InfoNamesLastBlock
  <2> SUFFICES ASSUME pc \in Opening, ~mem.none PROVE Stored = FirstBlock..mem.last
    BY DEF InfoNamesLastBlock, Opening
  <2>1. PICK L \in Nat : Inv(L)
    BY <1>1 DEF IInv
  <2>2. Layout(files, L) /\ Summary(mem, files, L, 0)
    BY <2>1 DEF Inv, DiskOK, OpeningOK
  <2>3. mem.last \in Nat /\ mem.last + 1 = L
    BY <2>2, BlockStoreAssumption DEF Summary, Known, Info
  <2>4. L - 1 = mem.last
    BY <2>3
  <2> QED
    BY <1>1, <2>2, <2>4, StoredIs
<1> QED
  BY Invariance, <1>1, PTL

-----------------------------------------------------------------------------
(* The store implements BlockLog. *)

\* A store that was just created.
LEMMA InitRefines ==
  ASSUME Init
  PROVE  Log!Init
<1>1. Stored = {}
  <2>1. 1..Len(files) = {}
    BY DEF Init
  <2> QED
    BY <2>1 DEF Stored
<1> QED
  BY <1>1 DEF Init, Log!Init, Serving, Adding

\* The blocks on disk.
LEMMA StoredBefore == \A L \in Nat : Inv(L) => Stored = 0..(L - 1)
BY StoredIs DEF Inv, DiskOK

\* The blocks on disk after a step.
LEMMA StoredAfter == \A L \in Nat : Inv(L)' => Stored' = 0..(L - 1)
<1>1. (\A L \in Nat : Inv(L) => Stored = 0..(L - 1))'
  BY StoredBefore, PTL
<1> QED
  BY <1>1

\* A quiet step changes nothing that the store shows.
LEMMA QuietUnseen ==
  ASSUME Quiet
  PROVE  height' = height /\ (pc \in Serving <=> pc' \in Serving)
<1> USE DEF Serving, Adding
<1>1. CASE LoadInfo \/ OpenFile \/ SyncIndex
  BY <1>1 DEF LoadInfo, OpenFile, SyncIndexPC, SyncIndex
<1>2. CASE \/ AddBlock \/ NextFile \/ SaveNextFile \/ SaveInfo \/ IndexNewBlock
           \/ UpdateBlockfilesInfo
  BY <1>2 DEF AddBlock, NextFile, SaveNextFile, SaveInfo, IndexNewBlock, UpdateBlockfilesInfo
<1>3. CASE \/ \E n \in FirstBlock..MaxBlock : NewBlockItr(n)
           \/ ItrNext \/ CloseItr \/ ResetLoop
  BY <1>3 DEF NewBlockItr, ItrNext, CloseItr, ResetLoop
<1>4. CASE \/ \E n \in 0..MaxBlock : Rollback(n)
           \/ RecordHeight("rbRecord", "rbWrite", "rbIndex")
           \/ RecordHeight("rsRecord", "rsWrite", "rsFiles")
           \/ WriteHeight("rbWrite", "rbIndex") \/ WriteHeight("rsWrite", "rsFiles")
  BY <1>4 DEF Rollback, RecordHeight, WriteHeight
<1>5. CASE \/ RollbackBlockIndex \/ DeleteInfo \/ SearchFile \/ StartReset
           \/ DropIndex("rsIndex", "rsRecord") \/ DropIndex("down", "down")
  BY <1>5 DEF RollbackBlockIndex, DeleteInfo, SearchFile, StartReset, DropIndex
<1> QED
  BY <1>1, <1>2, <1>3, <1>4, <1>5 DEF Quiet

\* Opening reports what is on disk.
LEMMA LoadHeaderRefines ==
  ASSUME NEW L \in Nat, Inv(L), FirstBlock = 0, LoadHeader
  PROVE  Log!Open \/ UNCHANGED Log!vars
<1>1. Inv(L)' /\ pc = "header" /\ files' = files
  BY LoadHeaderStep DEF LoadHeader, disk
<1>2. Stored = 0..(L - 1) /\ Stored' = 0..(L - 1)
  BY <1>1, StoredBefore, StoredAfter
<1>3. CASE pc' = "idle"
  <2>1. height' = L
    BY <1>1, <1>3 DEF Inv, BeforeAppend
  <2> QED
    BY <1>1, <1>2, <1>3, <2>1 DEF Log!Open, Serving, Adding
<1>4. CASE pc' # "idle"
  <2>1. pc' \in {"down", "failed"} /\ height' = height
    BY <1>4 DEF LoadHeader
  <2> QED
    BY <1>1, <1>2, <2>1 DEF Log!vars, Serving, Adding
<1> QED
  BY <1>3, <1>4

\* A block in the file is stored.
LEMMA AppendBlockRefines ==
  ASSUME NEW L \in Nat, Inv(L), AppendBlock
  PROVE  Log!Store
<1>1. pc = "append" /\ pc' = "save" /\ height' = height
  BY DEF AppendBlock
<1>2. PICK M \in Nat : M = L + 1 /\ Inv(M)'
  BY AppendBlockStep
<1>3. Stored = 0..(L - 1) /\ Stored' = 0..(M - 1) /\ height = L
  BY <1>1, <1>2, StoredBefore, StoredAfter DEF Inv, BeforeAppend
<1>4. height \notin Stored /\ Stored' = Stored \cup {height}
  BY <1>2, <1>3
<1> QED
  BY <1>1, <1>4 DEF Log!Store, Serving, Adding

\* It is reported when its height is.
LEMMA UpdateBlockchainInfoRefines ==
  ASSUME NEW L \in Nat, Inv(L), UpdateBlockchainInfo
  PROVE  Log!Report
<1>1. pc = "height" /\ pc' = "idle" /\ height' = height + 1
  BY DEF UpdateBlockchainInfo
<1>2. Inv(L)'
  BY UpdateBlockchainInfoStep
<1>3. Stored = 0..(L - 1) /\ Stored' = 0..(L - 1) /\ L = height + 1 /\ height \in 0..MaxBlock
  BY <1>1, <1>2, StoredBefore, StoredAfter DEF Inv, AfterAppend
<1>4. height \in Stored
  BY <1>3, BlockStoreAssumption
<1> QED
  BY <1>1, <1>3, <1>4 DEF Log!Report, Serving, Adding

\* A block whose summary cannot be saved is taken back.
LEMMA SaveInfoFailsRefines ==
  ASSUME NEW L \in Nat, Inv(L), SaveInfoFails
  PROVE  Log!TakeBack
<1>1. pc = "save" /\ pc' = "down" /\ height' = height
  BY DEF SaveInfoFails
<1>2. PICK M \in Nat : L = M + 1 /\ Inv(M)'
  BY SaveInfoFailsStep
<1>3. Stored = 0..(L - 1) /\ Stored' = 0..(M - 1) /\ L = height + 1 /\ height \in 0..MaxBlock
  BY <1>1, <1>2, StoredBefore, StoredAfter DEF Inv, AfterAppend
<1>4. height = M /\ height \in Nat
  BY <1>2, <1>3, BlockStoreAssumption
<1>5. height \in Stored /\ Stored' = Stored \ {height}
  BY <1>2, <1>3, <1>4
<1> QED
  BY <1>1, <1>5 DEF Log!TakeBack, Serving, Adding

\* A crash stops the store and takes no block.
LEMMA CrashRefines ==
  ASSUME NEW L \in Nat, Inv(L), Crash
  PROVE  Log!Stop \/ UNCHANGED Log!vars
<1>1. pc' = "down" /\ height' = height
  BY DEF Crash
<1>2. Inv(L)'
  BY CrashStep
<1>3. Stored = 0..(L - 1) /\ Stored' = 0..(L - 1)
  BY <1>2, StoredBefore, StoredAfter
<1>4. pc' \notin Serving
  BY <1>1 DEF Serving, Adding
<1> QED
  BY <1>1, <1>3, <1>4 DEF Log!Stop, Log!vars

\* An offline command removes blocks from the end, and never the first one.
LEMMA ShortenRefines ==
  ASSUME NEW L \in Nat, Inv(L), RollbackBlockFiles \/ ResetToGenesisBlk
  PROVE  (\E n \in {b \in Stored : b > 0} : Log!Truncate(n)) \/ UNCHANGED Log!vars
<1>1. pc \in {"rbFiles", "rsFiles"} /\ pc' \in {"rbFiles", "rsFiles", "down"} /\ height' = height
  BY DEF RollbackBlockFiles, ResetToGenesisBlk, ShortenFiles
<1>2. PICK M \in 0..L : (M = L \/ 0 < M) /\ Inv(M)'
  BY RollbackBlockFilesStep, ResetToGenesisBlkStep
<1>3. M \in Nat
  OBVIOUS
<1>4. Stored = 0..(L - 1) /\ Stored' = 0..(M - 1)
  BY <1>2, <1>3, StoredBefore, StoredAfter
<1>5. pc \notin Serving /\ pc' \notin Serving
  BY <1>1 DEF Serving, Adding
<1>6. CASE M = L
  BY <1>1, <1>4, <1>5, <1>6 DEF Log!vars
<1>7. CASE M # L
  <2>1. 0 < M /\ M < L
    BY <1>2, <1>7
  <2>2. M \in {b \in Stored : b > 0} /\ Stored' = {b \in Stored : b < M}
    BY <1>3, <1>4, <2>1
  <2>3. Log!Truncate(M)
    BY <1>1, <1>5, <2>2 DEF Log!Truncate
  <2> QED
    BY <2>2, <2>3
<1> QED
  BY <1>6, <1>7

\* Every step is a step of BlockLog or changes nothing that it shows.
LEMMA NextRefines ==
  ASSUME IInv, FirstBlock = 0, [Next]_vars
  PROVE  [Log!Next]_(Log!vars)
<1>1. PICK L \in Nat : Inv(L)
  BY DEF IInv
<1>2. CASE Quiet
  <2>1. Inv(L)'
    BY <1>1, <1>2, QuietStep
  <2>2. Stored = 0..(L - 1) /\ Stored' = 0..(L - 1)
    BY <1>1, <2>1, StoredBefore, StoredAfter
  <2> QED
    BY <1>2, <2>2, QuietUnseen DEF Log!vars
<1>3. CASE LoadHeader
  BY <1>1, <1>3, LoadHeaderRefines DEF Log!Next
<1>4. CASE AppendBlock
  BY <1>1, <1>4, AppendBlockRefines DEF Log!Next
<1>5. CASE UpdateBlockchainInfo
  BY <1>1, <1>5, UpdateBlockchainInfoRefines DEF Log!Next
<1>6. CASE SaveInfoFails
  BY <1>1, <1>6, SaveInfoFailsRefines DEF Log!Next
<1>7. CASE Crash
  BY <1>1, <1>7, CrashRefines DEF Log!Next
<1>8. CASE RollbackBlockFiles \/ ResetToGenesisBlk
  BY <1>1, <1>8, ShortenRefines DEF Log!Next
<1>9. CASE UNCHANGED vars
  BY <1>9 DEF vars, disk, Stored, Log!vars
<1> QED
  BY <1>2, <1>3, <1>4, <1>5, <1>6, <1>7, <1>8, <1>9, NextCases

(***************************************************************************)
(* A store that was not imported from a snapshot implements BlockLog for   *)
(* every block and file size: no crash takes a block that is on disk, what *)
(* is on disk has no gap, opening reports all of it, and a block is        *)
(* reported only when it is there.                                         *)
(***************************************************************************)
THEOREM StoreImplementsLog == ASSUME FirstBlock = 0 PROVE Spec => ImplementsBlockLog
<1>1. Init => Log!Init
  BY InitRefines
<1>2. IInv /\ [Next]_vars => [Log!Next]_(Log!vars)
  BY NextRefines
<1>3. Spec => Log!Spec
  BY Invariance, <1>1, <1>2, PTL DEF Spec, Log!Spec
<1> QED
  BY <1>3 DEF ImplementsBlockLog
=============================================================================
