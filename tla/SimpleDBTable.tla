---------------------------- MODULE SimpleDBTable ----------------------------
(***************************************************************************)
(* The on-disk table of the simpledb program (src/unnamed/part_001, lines  *)
(* 62-262): a tableWriter buffers encoded (key, value) entries in a        *)
(* bufFile and records each key's offset in its index; tableWriterClose    *)
(* flushes the buffer to the file and returns the Table.  RecoverTable     *)
(* rebuilds the index from the file with readTableIndex, which reads the   *)
(* file in chunks into a lazyFileBuf and decodes entries from it.          *)
(* TableRead looks a key up and reads its value with ReadValue.            *)
(*                                                                         *)
(* A byte is a number below ByteBase and Data.uint64Put writes EncLen      *)
(* bytes little-endian (8 bytes of base 256 in the program).  The file is  *)
(* its sequence of bytes; it is written only by this writer, so FS.readAt  *)
(* is a function of it.                                                    *)
(***************************************************************************)
EXTENDS Naturals, Sequences, SequencesExt

CONSTANTS
  Keys,           \* keys a caller puts and reads
  Vals,           \* values (byte sequences) a caller puts
  EncLen,         \* bytes of an encoded uint64 (8)
  ByteBase,       \* values of a byte (256)
  ChunkSize,      \* the 4096-byte read unit of readTableIndex and ReadValue
  MaxPuts,        \* bound on the number of tablePut calls
  MaxRecoveries,  \* bound on the number of RecoverTable calls
  None            \* value of a map entry that is absent

ASSUME EncLen \in Nat \ {0} /\ ByteBase \in Nat \ {0, 1}
ASSUME ChunkSize \in Nat \ {0}
ASSUME \A k \in Keys : k \in Nat /\ k < ByteBase ^ EncLen
ASSUME \A v \in Vals : Len(v) < ByteBase ^ EncLen

VARIABLES
  puts,        \* the caller's remaining tablePut(k, v) calls
  buf,         \* the bufFile's in-memory buffer (*f.buf)
  offset,      \* the tableWriter's offset pointer
  index,       \* the tableWriter's index: key -> offset of the value
  file,        \* the bytes of the table file on disk
  tpc,         \* "writing", "table", "recovering" or "panic"
  tindex,      \* the index of the open Table (filled by readTableIndex)
  lbuf,        \* readTableIndex's lazyFileBuf (offset, next)
  recoveries,  \* number of RecoverTable calls so far
  lastPut,     \* the last value put for each key (history)
  readRes      \* the result of the last TableRead (history)

vars == <<puts, buf, offset, index, file, tpc, tindex, lbuf, recoveries,
          lastPut, readRes>>

-----------------------------------------------------------------------------
(* Encoding and decoding                                                   *)

(* slice.take / slice.skip / FS.readAt                                     *)
take(n, s) == SubSeq(s, 1, n)
skip(n, s) == SubSeq(s, n + 1, Len(s))
readAt(content, off, n) ==
  IF off >= Len(content) THEN <<>>
  ELSE SubSeq(content, off + 1, IF off + n < Len(content) THEN off + n ELSE Len(content))

(* Mutant of uint64Put: the bytes are not truncated to a byte.          *)
uint64PutUntruncated(x) == [i \in 1 .. EncLen |-> x \div (ByteBase ^ (i - 1))]

(* Data.uint64Put: x as EncLen little-endian bytes.                        *)
uint64Put(x) == [i \in 1 .. EncLen |-> (x \div (ByteBase ^ (i - 1))) % ByteBase]

(* Data.uint64Get: the number in the first EncLen bytes, little-endian.   *)
RECURSIVE LittleEndian(_)
LittleEndian(s) == IF s = <<>> THEN 0 ELSE Head(s) + ByteBase * LittleEndian(Tail(s))
uint64Get(p) == LittleEndian(take(EncLen, p))

(* EncodeUInt64 x p: p with x appended.                                   *)
EncodeUInt64(x, p) == p \o uint64Put(x)

(* EncodeSlice data p: p with the length of data and data appended.       *)
EncodeSlice(data, p) == EncodeUInt64(Len(data), p) \o data

(* DecodeUInt64 p: (n, 8), or (0, 0) when p is shorter than 8 bytes.      *)
DecodeUInt64(p) ==
  IF Len(p) < EncLen THEN <<0, 0>> ELSE <<uint64Get(p), EncLen>>

(* DecodeEntry data: (Entry, bytes consumed), 0 consumed on failure.      *)
(* The value is the subslice l1+l2 .. l1+l2+valueLen of data, which      *)
(* panics when data holds fewer bytes: that outcome is the record with   *)
(* panic = TRUE.                                                         *)
NoEntry == [key |-> 0, value |-> <<>>, len |-> 0, panic |-> FALSE]
DecodeEntry(data) ==
  LET d1 == DecodeUInt64(data) IN
  IF d1[2] = 0 THEN NoEntry
  ELSE LET d2 == DecodeUInt64(skip(d1[2], data))
           end == d1[2] + d2[2] + d2[1]
       IN IF d2[2] = 0 THEN NoEntry
          ELSE IF end > Len(data) THEN [NoEntry EXCEPT !.panic = TRUE]
          ELSE [key |-> d1[1], value |-> SubSeq(data, d1[2] + d2[2] + 1, end),
                len |-> end, panic |-> FALSE]

(* Mutant of ReadValue: the second readAt starts haveBytes after off,    *)
(* forgetting the length header in front of the value.                   *)
ReadValueNoHeader(f, off) ==
  LET startBuf   == readAt(f, off, ChunkSize)
      totalBytes == uint64Get(startBuf)
      rbuf       == skip(EncLen, startBuf)
      haveBytes  == Len(rbuf)
  IN IF haveBytes < totalBytes
     THEN rbuf \o readAt(f, off + haveBytes, totalBytes - haveBytes)
     ELSE take(totalBytes, rbuf)

(* ReadValue f off: the length at off, then that many bytes after it,    *)
(* read with one chunk and, if that was short, a second readAt.          *)
ReadValue(f, off) ==
  LET startBuf   == readAt(f, off, ChunkSize)
      totalBytes == uint64Get(startBuf)
      rbuf       == skip(EncLen, startBuf)
      haveBytes  == Len(rbuf)
  IN IF haveBytes < totalBytes
     THEN rbuf \o readAt(f, off + ChunkSize, totalBytes - haveBytes)
     ELSE take(totalBytes, rbuf)

(* Go's Map uint64 holds any decoded key, not only the keys put.          *)
KeySpace == 0 .. ByteBase ^ EncLen - 1
EmptyIndex == [k \in KeySpace |-> None]

-----------------------------------------------------------------------------
(* The table writer                                                        *)

(* Mutant of tablePut: the index records the offset of the entry, not    *)
(* of its value's length (the encoded key is not counted).               *)
tablePutIndexAtKey(k, v) ==
  LET tmp2 == EncodeUInt64(k, <<>>)
      tmp3 == EncodeSlice(v, tmp2)
  IN
  /\ tpc = "writing"
  /\ puts # <<>>
  /\ Head(puts) = <<k, v>>
  /\ index' = [index EXCEPT ![k] = offset]
  /\ buf' = buf \o tmp3
  /\ offset' = offset + Len(tmp3)
  /\ puts' = Tail(puts)
  /\ lastPut' = [lastPut EXCEPT ![k] = v]
  /\ UNCHANGED <<file, tpc, tindex, lbuf, recoveries, readRes>>

(* tablePut w k v: encode k, then v's length and v; index k at the       *)
(* writer's offset plus the encoded key; tableWriterAppend appends the   *)
(* entry to the bufFile's buffer (bufAppend) and advances the offset.    *)
tablePut(k, v) ==
  LET tmp2 == EncodeUInt64(k, <<>>)
      tmp3 == EncodeSlice(v, tmp2)
  IN
  /\ tpc = "writing"
  /\ puts # <<>>
  /\ Head(puts) = <<k, v>>
  /\ index' = [index EXCEPT ![k] = offset + Len(tmp2)]
  /\ buf' = buf \o tmp3
  /\ offset' = offset + Len(tmp3)
  /\ puts' = Tail(puts)
  /\ lastPut' = [lastPut EXCEPT ![k] = v]
  /\ UNCHANGED <<file, tpc, tindex, lbuf, recoveries, readRes>>

(* tableWriterClose w: bufClose finds an empty buffer (bufFlush returns), *)
(* closes the file and opens it again as the Table's file.               *)
tableWriterCloseEmpty ==
  /\ tpc = "writing"
  /\ puts = <<>>
  /\ buf = <<>>
  /\ tindex' = index
  /\ tpc' = "table"
  /\ UNCHANGED <<puts, buf, offset, index, file, lbuf, recoveries, lastPut,
                 readRes>>

(* tableWriterClose w: bufFlush appends the buffer to the file and       *)
(* empties it; then close, open and return Table{index, f}.              *)
tableWriterCloseFlush ==
  /\ tpc = "writing"
  /\ puts = <<>>
  /\ buf # <<>>
  /\ file' = file \o buf
  /\ buf' = <<>>
  /\ tindex' = index
  /\ tpc' = "table"
  /\ UNCHANGED <<puts, offset, index, lbuf, recoveries, lastPut, readRes>>

-----------------------------------------------------------------------------
(* Reading and recovering a table                                          *)

(* TableRead t k: the key is not in the index: (nil, false).            *)
TableReadMissing(k) ==
  /\ tpc = "table"
  /\ tindex[k] = None
  /\ readRes' = [key |-> k, val |-> <<>>, ok |-> FALSE]
  /\ UNCHANGED <<puts, buf, offset, index, file, tpc, tindex, lbuf,
                 recoveries, lastPut>>

(* TableRead t k: ReadValue at the indexed offset, and true.            *)
TableReadFound(k) ==
  /\ tpc = "table"
  /\ tindex[k] # None
  /\ readRes' = [key |-> k, val |-> ReadValue(file, tindex[k]), ok |-> TRUE]
  /\ UNCHANGED <<puts, buf, offset, index, file, tpc, tindex, lbuf,
                 recoveries, lastPut>>

(* CloseTable, then RecoverTable p: a new map, FS.open p, and            *)
(* readTableIndex starts from lazyFileBuf{offset: 0, next: nil}.         *)
RecoverTable ==
  /\ tpc = "table"
  /\ recoveries < MaxRecoveries
  /\ recoveries' = recoveries + 1
  /\ tindex' = EmptyIndex
  /\ lbuf' = [offset |-> 0, next |-> <<>>]
  /\ tpc' = "recovering"
  /\ UNCHANGED <<puts, buf, offset, index, file, lastPut, readRes>>

(* Mutant of readTableIndexEntry: the key is indexed at buf.offset, the  *)
(* start of its entry, without the 8 bytes of the key.                   *)
readTableIndexEntryNoSkip ==
  LET e == DecodeEntry(lbuf.next) IN
  /\ tpc = "recovering"
  /\ ~ e.panic
  /\ e.len > 0
  /\ tindex' = [tindex EXCEPT ![e.key] = lbuf.offset]
  /\ lbuf' = [offset |-> lbuf.offset + e.len, next |-> skip(e.len, lbuf.next)]
  /\ UNCHANGED <<puts, buf, offset, index, file, tpc, recoveries, lastPut,
                 readRes>>

(* readTableIndex: an entry decodes from buf.next: index it at           *)
(* 8 + buf.offset and continue past it.                                  *)
readTableIndexEntry ==
  LET e == DecodeEntry(lbuf.next) IN
  /\ tpc = "recovering"
  /\ ~ e.panic
  /\ e.len > 0
  /\ tindex' = [tindex EXCEPT ![e.key] = EncLen + lbuf.offset]
  /\ lbuf' = [offset |-> lbuf.offset + e.len, next |-> skip(e.len, lbuf.next)]
  /\ UNCHANGED <<puts, buf, offset, index, file, tpc, recoveries, lastPut,
                 readRes>>

(* readTableIndex: no entry decodes; FS.readAt f buf.offset 4096 returns *)
(* bytes, which are appended to buf.next; buf.offset is kept.            *)
readTableIndexFill ==
  LET e == DecodeEntry(lbuf.next)
      p == readAt(file, lbuf.offset, ChunkSize)
  IN
  /\ tpc = "recovering"
  /\ ~ e.panic
  /\ e.len = 0
  /\ p # <<>>
  /\ lbuf' = [offset |-> lbuf.offset, next |-> lbuf.next \o p]
  /\ UNCHANGED <<puts, buf, offset, index, file, tpc, tindex, recoveries,
                 lastPut, readRes>>

(* readTableIndex: no entry decodes and the read returns nothing: the    *)
(* loop ends and RecoverTable returns Table{index, f}.                   *)
readTableIndexEnd ==
  LET e == DecodeEntry(lbuf.next) IN
  /\ tpc = "recovering"
  /\ ~ e.panic
  /\ e.len = 0
  /\ readAt(file, lbuf.offset, ChunkSize) = <<>>
  /\ tpc' = "table"
  /\ UNCHANGED <<puts, buf, offset, index, file, tindex, lbuf, recoveries,
                 lastPut, readRes>>

(* readTableIndex: DecodeEntry's subslice runs past buf.next: a panic   *)
(* ends the program.                                                     *)
readTableIndexPanic ==
  /\ tpc = "recovering"
  /\ DecodeEntry(lbuf.next).panic
  /\ tpc' = "panic"
  /\ UNCHANGED <<puts, buf, offset, index, file, tindex, lbuf, recoveries,
                 lastPut, readRes>>

-----------------------------------------------------------------------------
(* newTableWriter p: an empty index, FS.create p, newBuf, offset 0.      *)
Init ==
  /\ puts \in BoundedSeq(Keys \X Vals, MaxPuts)
  /\ buf = <<>>
  /\ offset = 0
  /\ index = EmptyIndex
  /\ file = <<>>
  /\ tpc = "writing"
  /\ tindex = EmptyIndex
  /\ lbuf = [offset |-> 0, next |-> <<>>]
  /\ recoveries = 0
  /\ lastPut = EmptyIndex
  /\ readRes = None

Next ==
  \/ \E k \in Keys, v \in Vals : tablePut(k, v)
  \/ tableWriterCloseEmpty
  \/ tableWriterCloseFlush
  \/ \E k \in Keys : TableReadMissing(k) \/ TableReadFound(k)
  \/ RecoverTable
  \/ readTableIndexEntry
  \/ readTableIndexFill
  \/ readTableIndexEnd
  \/ readTableIndexPanic

Spec == Init /\ [][Next]_vars

-----------------------------------------------------------------------------
(* Properties                                                              *)

Bytes == 0 .. ByteBase - 1

TypeOK ==
  /\ puts \in Seq(Keys \X Vals)
  /\ buf \in Seq(Bytes)
  /\ offset \in Nat
  /\ index \in [KeySpace -> Nat \cup {None}]
  /\ file \in Seq(Bytes)
  /\ tpc \in {"writing", "table", "recovering", "panic"}
  /\ tindex \in [KeySpace -> Nat \cup {None}]
  /\ lbuf \in [offset : Nat, next : Seq(Bytes)]
  /\ recoveries \in 0 .. MaxRecoveries
  /\ readRes \in {None} \cup [key : Keys, val : Seq(Bytes), ok : BOOLEAN]

(* TableRead returns the value of the last tablePut of the key, or       *)
(* (nil, false) for a key never put, on the Table tableWriterClose        *)
(* returned and on one RecoverTable rebuilt from a file of one chunk: the *)
(* offsets tablePut records, the encoding and ReadValue's one or two      *)
(* readAt calls agree.  A longer file can be recovered to a wrong index,  *)
(* and TableRead then returns other bytes (see RecoverTableRebuildsIndex). *)
TableReadReturnsLastPut ==
  readRes # None /\ (recoveries = 0 \/ Len(file) <= ChunkSize) =>
    IF lastPut[readRes.key] = None
    THEN ~ readRes.ok /\ readRes.val = <<>>
    ELSE readRes.ok /\ readRes.val = lastPut[readRes.key]

(* RecoverTable on the file a tableWriter closed does not panic and      *)
(* rebuilds exactly the writer's index, however the entries fall across  *)
(* the chunks readTableIndex reads.                                      *)
RecoverTableRebuildsIndex ==
  recoveries > 0 =>
    /\ tpc # "panic"
    /\ tpc = "table" => tindex = index

(* readTableIndex is exact on a file it takes in with its first readAt:   *)
(* a file no longer than one chunk is recovered without a panic and to    *)
(* exactly the writer's index. Longer files reach the refill at the stale *)
(* buf.offset (RecoverTableRebuildsIndex fails there), so this marks where *)
(* the recovery stays correct.                                            *)
RecoverOneChunk ==
  recoveries > 0 /\ Len(file) <= ChunkSize =>
    /\ tpc # "panic"
    /\ tpc = "table" => tindex = index


=============================================================================
