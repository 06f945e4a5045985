------------------------------ MODULE BlockStore ------------------------------
(***************************************************************************)
(* The block store of peers and orderers (common/ledger/blkstorage): block *)
(* files, the summary of the files (blockfilesInfo) and the index, the     *)
(* last two in one LevelDB.  A block is appended to a file, then the       *)
(* summary, then the index is written; opening the store repairs what a    *)
(* crash left.  Rollback and reset work on the closed store.               *)
(*                                                                         *)
(* A block is its number; it has the same size whenever it is stored.  An  *)
(* offset in a file is the number of blocks before it.  A file may end in  *)
(* a torn block.  File number k of the code is element k+1 of files.  A    *)
(* crash of the machine loses LevelDB writes that were not synced.         *)
(***************************************************************************)
EXTENDS Integers, Sequences, FiniteSetsExt

CONSTANTS
  MaxBlock,       \* bound: the last block that is delivered
  FirstBlock,     \* 0, or the block after the snapshot the store starts from
  BlockSize,      \* size of each block
  MaxFileSize,    \* maxBlockfileSize
  BatchLimit      \* blocks that rollbackBlockIndex removes at a time

ASSUME BlockStoreAssumption ==
  /\ FirstBlock \in Nat /\ MaxBlock \in Nat /\ FirstBlock =< MaxBlock
  /\ MaxFileSize \in Nat \ {0}
  /\ BlockSize \in [0..MaxBlock -> 1..MaxFileSize]
  /\ BatchLimit \in Nat \ {0}

VARIABLES
  \* persistent
  files,       \* block files
  info,        \* the stored blockfilesInfo
  index,       \* location by block number
  savepoint,   \* indexSavePointKey
  preReset,    \* content of the file __preResetHeight
  \* in memory
  mem,         \* mgr.blockfilesInfo
  height,      \* bcInfo.Height
  reject,      \* endorsement is blocked until the ledger is rebuilt
  itr,         \* a blocksItr, or NoItr
  pc,          \* where the process, or the offline command, is
  target,      \* block that a rollback goes back to
  beginFile,   \* the file of that block is searched from beginFile to endFile
  endFile,
  \* ghost
  peak         \* the greatest height the store ever reported

disk == <<files, info, index, savepoint, preReset>>
db == <<info, index, savepoint>>
cmd == <<target, beginFile, endFile>>
vars == <<disk, mem, height, reject, itr, pc, cmd, peak>>

None == -1
NoInfo == [file |-> 0, size |-> 0, none |-> TRUE, last |-> 0]
NoLoc == [file |-> 0, pos |-> 0]
TornLoc == [file |-> 0, pos |-> 1]
NoItr == [next |-> None, avail |-> 0, loc |-> NoLoc, got |-> None, failed |-> FALSE]
NoFile == [blocks |-> << >>, torn |-> FALSE]

\* Content of __preResetHeight: absent, or empty after a write that was cut off.
Absent == 0
Empty == -1

Opening == {"openFile", "syncIndex", "header"}
Adding == {"nextFile", "saveNext", "append", "save", "index", "publish", "height"}
Serving == {"idle"} \cup Adding
Offline == {"rbRecord", "rbWrite", "rbIndex", "rbInfo", "rbSearch", "rbFiles",
            "rsIndex", "rsRecord", "rsWrite", "rsFiles"}

bootstrappedFromSnapshot == FirstBlock > 0

\* Bytes of a file.
FileSize(blocks) == MapThenSumSet(LAMBDA i : BlockSize[blocks[i]], 1..Len(blocks))

Stored == UNION {{files[f].blocks[i] : i \in 1..Len(files[f].blocks)} : f \in 1..Len(files)}

(* A store that was just created, or imported from a snapshot. *)
Init ==
  /\ files = << >> /\ info = NoInfo
  /\ index = [n \in {} |-> NoLoc] /\ savepoint = FirstBlock - 1
  /\ preReset = Absent
  /\ mem = NoInfo /\ height = FirstBlock /\ reject = FALSE /\ itr = NoItr
  /\ pc = "down" /\ target = 0 /\ beginFile = 1 /\ endFile = 1
  /\ peak = 0

-----------------------------------------------------------------------------
(* Reading files: block_stream.go. *)

\* Where a stream that is at loc and may go on to file last finds its next block:
\* NoLoc at its end, TornLoc if it meets a torn block.
StreamNext(loc, last) ==
  LET start(f) == IF f = loc.file THEN loc.pos ELSE 0
      more == {f \in loc.file..last : Len(files[f].blocks) > start(f) \/ files[f].torn}
  IN IF more = {} THEN NoLoc
     ELSE LET f == Min(more)
          IN IF Len(files[f].blocks) > start(f) THEN [file |-> f, pos |-> start(f)]
             ELSE TornLoc

After(loc) == [loc EXCEPT !.pos = @ + 1]
BlockAt(loc) == files[loc.file].blocks[loc.pos + 1]
IsBlock(loc) == /\ loc.file \in 1..Len(files)
                /\ loc.pos \in 0..(Len(files[loc.file].blocks) - 1)

-----------------------------------------------------------------------------
(* Opening the store: newBlockfileMgr. *)

constructBlockfilesInfo ==
  LET n == Len(files)
      blocks == files[n].blocks
      source == IF blocks = << >> /\ n > 1 THEN files[n - 1].blocks ELSE blocks
  IN IF n = 0 THEN [NoInfo EXCEPT !.file = 1]
     ELSE [file |-> n, size |-> Len(blocks),
           none |-> n = 1 /\ blocks = << >>,
           last |-> IF source = << >> THEN 0 ELSE source[Len(source)]]

\* Mutant: the blocks found behind the known end of the file are not counted.
M_SyncBlockfilesInfoFromFS(i) ==
  IF i.file > Len(files) THEN i
  ELSE [i EXCEPT !.size = Len(files[i.file].blocks), !.none = FALSE]

syncBlockfilesInfoFromFS(i) ==
  IF i.file > Len(files) THEN i
  ELSE LET numBlocks == Len(files[i.file].blocks) - i.size
       IN IF numBlocks = 0 THEN i
          ELSE [i EXCEPT !.size = @ + numBlocks,
                         !.last = IF i.none THEN numBlocks - 1 ELSE @ + numBlocks,
                         !.none = FALSE]

\* The summary is loaded or built, brought up to date and saved (synced).
LoadInfo ==
  /\ pc = "down"
  /\ mem' = IF info = NoInfo THEN constructBlockfilesInfo ELSE syncBlockfilesInfoFromFS(info)
  /\ info' = mem'
  /\ pc' = "openFile"
  /\ UNCHANGED <<files, index, savepoint, preReset, height, reject, itr, cmd, peak>>

\* Whether syncIndex has work to do, may return at once, or returns an error.
SyncIndexPC(fs) ==
  IF savepoint = None /\ bootstrappedFromSnapshot THEN "failed"
  ELSE IF mem.none \/ savepoint = mem.last THEN "header"
  ELSE IF fs[1].blocks = << >> THEN "failed"
  ELSE "syncIndex"

\* Mutant: the file is not truncated to its known size.
M_OpenFile ==
  /\ pc = "openFile"
  /\ files' = IF mem.file > Len(files) THEN Append(files, NoFile) ELSE files
  /\ pc' = SyncIndexPC(files')
  /\ UNCHANGED <<db, preReset, mem, height, reject, itr, cmd, peak>>

\* newBlockfileWriter creates the file if it is missing; truncateFile.
OpenFile ==
  /\ pc = "openFile"
  /\ files' = IF mem.file > Len(files) THEN Append(files, NoFile)
              ELSE [files EXCEPT ![mem.file] =
                      [blocks |-> SubSeq(@.blocks, 1, mem.size), torn |-> FALSE]]
  /\ pc' = SyncIndexPC(files')
  /\ UNCHANGED <<db, preReset, mem, height, reject, itr, cmd, peak>>

\* Where syncIndex reads: behind the last indexed block, or from the start.
SyncFrom ==
  LET first == files[1].blocks[1]
  IN StreamNext(IF savepoint + 1 > first THEN After(index[savepoint])
                ELSE [file |-> 1, pos |-> 0], mem.file)

\* indexBlock: all entries of a block and the savepoint in one synced batch.
IndexBlock(n, loc) ==
  /\ index' = [b \in DOMAIN index \cup {n} |-> IF b = n THEN loc ELSE index[b]]
  /\ savepoint' = n

\* One turn of the loop in syncIndex.
SyncIndex ==
  /\ pc = "syncIndex"
  /\ IF SyncFrom \in {NoLoc, TornLoc}
       THEN /\ pc' = IF SyncFrom = NoLoc THEN "header" ELSE "failed"
            /\ UNCHANGED <<index, savepoint>>
       ELSE IndexBlock(BlockAt(SyncFrom), SyncFrom) /\ pc' = pc
  /\ UNCHANGED <<files, info, preReset, mem, height, reject, itr, cmd, peak>>

\* The height comes from the header of the last block, which must be readable. Then
\* the peer loads the height recorded by a reset (serve in start.go) or gives up.
LoadHeader ==
  /\ pc = "header"
  /\ IF mem.none \/ (mem.last >= FirstBlock /\ mem.last \in DOMAIN index /\ IsBlock(index[mem.last]))
       THEN IF preReset = Empty
              THEN pc' = "down" /\ UNCHANGED <<height, reject, peak>>
              ELSE /\ pc' = "idle"
                   /\ height' = IF mem.none THEN FirstBlock ELSE mem.last + 1
                   /\ reject' = (preReset # Absent)
                   /\ peak' = Max({peak, height'})
       ELSE pc' = "failed" /\ UNCHANGED <<height, reject, peak>>
  /\ UNCHANGED <<disk, mem, itr, cmd>>

-----------------------------------------------------------------------------
(* Adding a block: addBlock, called with the next block. *)

AddBlock ==
  /\ pc = "idle"
  /\ height =< MaxBlock
  /\ pc' = IF FileSize(SubSeq(files[mem.file].blocks, 1, mem.size)) + BlockSize[height] > MaxFileSize
             THEN "nextFile" ELSE "append"
  /\ UNCHANGED <<disk, mem, height, reject, itr, cmd, peak>>

\* moveToNextFile: the file, then the summary (synced).
NextFile ==
  /\ pc = "nextFile"
  /\ files' = IF mem.file = Len(files) THEN Append(files, NoFile) ELSE files
  /\ pc' = "saveNext"
  /\ UNCHANGED <<db, preReset, mem, height, reject, itr, cmd, peak>>

SaveNextFile ==
  /\ pc = "saveNext"
  /\ mem' = [file |-> mem.file + 1, size |-> 0, none |-> FALSE, last |-> mem.last]
  /\ info' = mem'
  /\ pc' = "append"
  /\ UNCHANGED <<files, index, savepoint, preReset, height, reject, itr, cmd, peak>>

\* The length and the bytes of the block, synced.
AppendBlock ==
  /\ pc = "append"
  /\ files' = [files EXCEPT ![mem.file].blocks = Append(@, height)]
  /\ pc' = "save"
  /\ UNCHANGED <<db, preReset, mem, height, reject, itr, cmd, peak>>

NewInfo == [mem EXCEPT !.size = @ + 1, !.none = FALSE, !.last = height]

\* The summary, not synced.
SaveInfo ==
  /\ pc = "save"
  /\ info' = NewInfo
  /\ pc' = "index"
  /\ UNCHANGED <<files, index, savepoint, preReset, mem, height, reject, itr, cmd, peak>>

\* The summary cannot be saved: the block is removed again, the caller panics.
SaveInfoFails ==
  /\ pc = "save"
  /\ files' = [files EXCEPT ![mem.file].blocks = SubSeq(@, 1, mem.size)]
  /\ pc' = "down"
  /\ itr' = NoItr
  /\ UNCHANGED <<db, preReset, mem, height, reject, cmd, peak>>

\* Mutant: the index entry points to the end of the block.
M_IndexNewBlock ==
  /\ pc = "index"
  /\ IndexBlock(height, [file |-> mem.file, pos |-> mem.size + 1])
  /\ pc' = "publish"
  /\ UNCHANGED <<files, info, preReset, mem, height, reject, itr, cmd, peak>>

IndexNewBlock ==
  /\ pc = "index"
  /\ IndexBlock(height, [file |-> mem.file, pos |-> mem.size])
  /\ pc' = "publish"
  /\ UNCHANGED <<files, info, preReset, mem, height, reject, itr, cmd, peak>>

\* updateBlockfilesInfo wakes the iterators, then updateBlockchainInfo.
UpdateBlockfilesInfo ==
  /\ pc = "publish"
  /\ mem' = NewInfo
  /\ pc' = "height"
  /\ UNCHANGED <<disk, height, reject, itr, cmd, peak>>

UpdateBlockchainInfo ==
  /\ pc = "height"
  /\ height' = height + 1
  /\ peak' = Max({peak, height'})
  /\ pc' = "idle"
  /\ UNCHANGED <<disk, mem, reject, itr, cmd>>

\* A crash tears the block being appended, and loses the summary if it was not yet
\* synced; the block files are synced before.
Crash ==
  /\ pc # "down"
  /\ pc' = "down"
  /\ \/ files' = files
     \/ pc = "append" /\ files' = [files EXCEPT ![mem.file].torn = TRUE]
  /\ \/ info' = info
     \/ pc = "index" /\ info' = mem
  /\ itr' = NoItr
  /\ UNCHANGED <<index, savepoint, preReset, mem, height, reject, cmd, peak>>

-----------------------------------------------------------------------------
(* Iterators: blocks_itr.go. A ledger is used once it has its first block. *)

NewBlockItr(n) ==
  /\ pc \in Serving /\ itr = NoItr /\ height > FirstBlock
  /\ itr' = [next |-> n, avail |-> mem.last, loc |-> NoLoc, got |-> None, failed |-> FALSE]
  /\ UNCHANGED <<disk, mem, height, reject, pc, cmd, peak>>

\* Mutant: the iterator waits for the block before the one it needs.
M_ItrNext ==
  /\ itr # NoItr /\ ~itr.failed
  /\ mem.last >= itr.next - 1
  /\ LET from == IF itr.loc = NoLoc THEN index[itr.next] ELSE itr.loc
         loc == StreamNext(from, Len(files))
     IN itr' = IF (itr.loc = NoLoc /\ itr.next \notin DOMAIN index) \/ loc \in {NoLoc, TornLoc}
               THEN [itr EXCEPT !.failed = TRUE]
               ELSE [itr EXCEPT !.next = @ + 1, !.avail = mem.last, !.loc = After(loc),
                                !.got = BlockAt(loc)]
  /\ UNCHANGED <<disk, mem, height, reject, pc, cmd, peak>>

\* Next waits for the block, finds its place in the index once and reads on from there.
ItrNext ==
  /\ itr # NoItr /\ ~itr.failed
  /\ itr.avail >= itr.next \/ mem.last >= itr.next
  /\ LET from == IF itr.loc = NoLoc THEN index[itr.next] ELSE itr.loc
         loc == StreamNext(from, Len(files))
         avail == IF itr.avail >= itr.next THEN itr.avail ELSE mem.last
     IN itr' = IF (itr.loc = NoLoc /\ itr.next \notin DOMAIN index) \/ loc \in {NoLoc, TornLoc}
               THEN [itr EXCEPT !.failed = TRUE, !.avail = avail]
               ELSE [itr EXCEPT !.next = @ + 1, !.avail = avail, !.loc = After(loc),
                                !.got = BlockAt(loc)]
  /\ UNCHANGED <<disk, mem, height, reject, pc, cmd, peak>>

CloseItr ==
  /\ itr # NoItr
  /\ itr' = NoItr
  /\ UNCHANGED <<disk, mem, height, reject, pc, cmd, peak>>

\* resetLoop: endorsement is allowed when the recorded height is reached.
ResetLoop ==
  /\ pc \in Serving /\ reject
  /\ height >= preReset
  /\ preReset' = Absent
  /\ reject' = FALSE
  /\ UNCHANGED <<files, db, mem, height, itr, pc, cmd, peak>>

-----------------------------------------------------------------------------
(* The closed store: Rollback, ResetBlockStore, DeleteBlockStoreIndex. The  *)
(* commands refuse a peer with a ledger that came from a snapshot.          *)

Rollback(n) ==
  /\ pc = "down" /\ ~bootstrappedFromSnapshot
  /\ constructBlockfilesInfo.last > n
  /\ target' = n
  /\ pc' = "rbRecord"
  /\ UNCHANGED <<disk, mem, height, reject, itr, beginFile, endFile, peak>>

\* recordHeightIfGreaterThanPreviousRecording: the file is emptied, then written. A
\* file without a number makes the command fail.
RecordHeight(from, write, next) ==
  /\ pc = from
  /\ IF preReset = Empty THEN pc' = "down" /\ UNCHANGED preReset
     ELSE IF constructBlockfilesInfo.last + 1 > preReset
            THEN pc' = write /\ preReset' = Empty
            ELSE pc' = next /\ UNCHANGED preReset
  /\ UNCHANGED <<files, db, mem, height, reject, itr, cmd, peak>>

\* Mutant: the height of the target is recorded.
M_WriteHeight(write, next) ==
  /\ pc = write
  /\ preReset' = target + 1
  /\ pc' = next
  /\ UNCHANGED <<files, db, mem, height, reject, itr, cmd, peak>>

WriteHeight(write, next) ==
  /\ pc = write
  /\ preReset' = constructBlockfilesInfo.last + 1
  /\ pc' = next
  /\ UNCHANGED <<files, db, mem, height, reject, itr, cmd, peak>>

\* rollbackBlockIndex: a batch at a time, from the end.
RollbackBlockIndex ==
  /\ pc = "rbIndex"
  /\ IF savepoint =< target THEN pc' = "rbInfo" /\ UNCHANGED <<index, savepoint>>
     ELSE LET start == Max({target + 1, savepoint - BatchLimit + 1})
          IN /\ index' = [b \in DOMAIN index \ (start..savepoint) |-> index[b]]
             /\ savepoint' = start - 1
             /\ pc' = pc
  /\ UNCHANGED <<files, info, preReset, mem, height, reject, itr, cmd, peak>>

\* rollbackBlockFiles: the summary, then the files from the last one down.
DeleteInfo ==
  /\ pc = "rbInfo"
  /\ info' = NoInfo
  /\ beginFile' = 1 /\ endFile' = constructBlockfilesInfo.file
  /\ pc' = "rbSearch"
  /\ UNCHANGED <<files, index, savepoint, preReset, mem, height, reject, itr, target, peak>>

\* One turn of the loop in binarySearchFileNumForBlock. A file without a block is an error.
SearchFile ==
  /\ pc = "rbSearch"
  /\ LET searchFile == beginFile + (endFile - beginFile) \div 2 + 1
         blocks == files[searchFile].blocks
     IN \/ /\ beginFile = endFile
           /\ pc' = "rbFiles" /\ UNCHANGED <<beginFile, endFile>>
        \/ /\ beginFile # endFile /\ blocks = << >>
           /\ pc' = "down" /\ UNCHANGED <<beginFile, endFile>>
        \/ /\ beginFile # endFile /\ blocks # << >>
           /\ beginFile' = IF blocks[1] > target THEN beginFile ELSE searchFile
           /\ endFile' = IF blocks[1] > target THEN searchFile - 1
                         ELSE IF blocks[1] = target THEN searchFile ELSE endFile
           /\ pc' = pc
  /\ UNCHANGED <<disk, mem, height, reject, itr, target, peak>>

\* The end of block n in its file.
calculateEndOffSet(blocks, n) == CHOOSE i \in 1..Len(blocks) : blocks[i] = n

\* Files behind file f are removed, then f is truncated behind block n.
ShortenFiles(f, n) ==
  IF Len(files) > f
    THEN files' = SubSeq(files, 1, Len(files) - 1) /\ pc' = pc
    ELSE /\ files' = [files EXCEPT ![f] =
                        [blocks |-> SubSeq(@.blocks, 1, calculateEndOffSet(@.blocks, n)),
                         torn |-> FALSE]]
         /\ pc' = "down"

RollbackBlockFiles ==
  /\ pc = "rbFiles"
  /\ ShortenFiles(beginFile, target)
  /\ UNCHANGED <<db, preReset, mem, height, reject, itr, cmd, peak>>

StartReset ==
  /\ pc = "down" /\ ~bootstrappedFromSnapshot
  /\ pc' = "rsIndex"
  /\ UNCHANGED <<disk, mem, height, reject, itr, cmd, peak>>

\* DeleteBlockStoreIndex, first step of a reset or all that a rebuild does here. The
\* summary is in the same DB.
DropIndex(from, next) ==
  /\ pc = from
  /\ ~bootstrappedFromSnapshot
  /\ index' = [n \in {} |-> NoLoc] /\ savepoint' = None /\ info' = NoInfo
  /\ pc' = next
  /\ UNCHANGED <<files, preReset, mem, height, reject, itr, cmd, peak>>

\* resetToGenesisBlk: an error without a genesis block.
ResetToGenesisBlk ==
  /\ pc = "rsFiles"
  /\ IF files = << >> \/ files[1].blocks = << >>
       THEN pc' = "down" /\ UNCHANGED files
       ELSE ShortenFiles(1, 0)
  /\ UNCHANGED <<db, preReset, mem, height, reject, itr, cmd, peak>>

-----------------------------------------------------------------------------
OpenSteps == OpenFile \/ SyncIndex \/ LoadHeader

AddSteps ==
  \/ NextFile \/ SaveNextFile \/ AppendBlock \/ SaveInfo \/ IndexNewBlock
  \/ UpdateBlockfilesInfo \/ UpdateBlockchainInfo

OfflineCommands ==
  \/ \E n \in 0..MaxBlock : Rollback(n)
  \/ RecordHeight("rbRecord", "rbWrite", "rbIndex")
  \/ WriteHeight("rbWrite", "rbIndex")
  \/ RollbackBlockIndex \/ DeleteInfo \/ SearchFile \/ RollbackBlockFiles
  \/ StartReset
  \/ DropIndex("rsIndex", "rsRecord")
  \/ RecordHeight("rsRecord", "rsWrite", "rsFiles")
  \/ WriteHeight("rsWrite", "rsFiles")
  \/ ResetToGenesisBlk
  \/ DropIndex("down", "down")

Next ==
  \/ LoadInfo \/ OpenSteps
  \/ AddBlock \/ AddSteps \/ SaveInfoFails
  \/ \E n \in FirstBlock..MaxBlock : NewBlockItr(n)
  \/ ItrNext \/ CloseItr
  \/ ResetLoop
  \/ Crash
  \/ OfflineCommands

Spec == Init /\ [][Next]_vars

-----------------------------------------------------------------------------
(* Properties. *)

File == [blocks : Seq(0..MaxBlock), torn : BOOLEAN]
Info == [file : Nat, size : Nat, none : BOOLEAN, last : 0..MaxBlock]
Location == [file : Nat, pos : Nat]

\* Every variable has its type.
TypeOK ==
  /\ files \in Seq(File)
  /\ info \in Info /\ mem \in Info
  /\ DOMAIN index \subseteq 0..MaxBlock
  /\ \A n \in DOMAIN index : index[n] \in Location
  /\ savepoint \in {None} \cup 0..MaxBlock
  /\ preReset \in {Empty} \cup 0..(MaxBlock + 1)
  /\ height \in 0..(MaxBlock + 1)
  /\ peak \in 0..(MaxBlock + 1)
  /\ reject \in BOOLEAN
  /\ itr \in [next : {None} \cup 0..(MaxBlock + 1), avail : 0..MaxBlock, loc : Location,
              got : {None} \cup 0..MaxBlock, failed : BOOLEAN]
  /\ pc \in {"down", "failed"} \cup Opening \cup Serving \cup Offline
  /\ target \in 0..MaxBlock
  /\ beginFile \in Nat \ {0} /\ endFile \in Nat \ {0}

\* Whatever point of adding a block, of opening the store or of an offline command the
\* last crash hit, the store can be opened: syncIndex finds what it needs and the header
\* of the last block can be read.
OpenNeverFails == pc # "failed"

\* Every block below the reported height can be read through the index: recovery and
\* addBlock agree on the place of each block, across files.
BlocksReadable ==
  pc \in Serving =>
    \A n \in FirstBlock..(height - 1) :
      n \in DOMAIN index /\ IsBlock(index[n]) /\ BlockAt(index[n]) = n

\* An iterator that runs beside the committer never meets an error or the end of the
\* files, and delivers the blocks in sequence, also from one file to the next.
ItrInSequence == ~itr.failed /\ (itr.got # None => itr.got = itr.next - 1)

\* A peer endorses only if its ledger is as high as it was before it was last reset or
\* rolled back, however often these commands were cut off and repeated.
EndorsesOnlyRebuilt == pc \in Serving /\ ~reject => height >= peak

\* What newBlockfileMgr and syncBlockfilesInfoFromFS say of the summary: after opening
\* it names the actual last block number stored.
InfoNamesLastBlock ==
  pc \in {"openFile", "syncIndex", "header"} /\ ~mem.none => Stored = FirstBlock..mem.last

Log == INSTANCE BlockLog WITH
  stored <- Stored,
  height <- height,
  open <- pc \in Serving

\* The store implements BlockLog: a block that was reported is never lost by a crash, a
\* block is on disk or not, and opening reports exactly what is on disk.
ImplementsBlockLog == Log!Spec
=============================================================================
