------------------------------ MODULE AssetReads ------------------------------
(***************************************************************************)
(* Immutable assets: MemoryAssetStore of crates/orbitrelay-asset-runtime,  *)
(* which takes assets in once their length and hash are verified, and      *)
(* read_asset_fully, which loads one asset through bounded range reads.    *)
(* A read looks the descriptor up and then asks for one range after the    *)
(* other, each an await of a port: the catalog and the reader may be the   *)
(* memory store or other adapters, which answer what the constructors of   *)
(* the answers admit, whether or not it fits together.                     *)
(***************************************************************************)
EXTENDS Integers, Sequences

CONSTANTS
  Assets,          (* AssetIds                                              *)
  Contents,        (* sequences of bytes                                    *)
  ReadChunkSize,   (* READ_CHUNK_SIZE                                       *)
  MaxBytes,        (* max_bytes, the caller's limit                         *)
  MaxU64,          (* the largest u64                                       *)
  MaxUsize,        (* the largest usize                                     *)
  Scenarios        (* [records, inserts, reads]: what is stored, submitted  *)
                   (* and read                                              *)

ASSUME AssetAssumption ==
  /\ Contents \subseteq Seq(Nat)
  /\ <<>> \in Contents
  /\ ReadChunkSize \in Nat \ {0}
  /\ MaxBytes \in Nat /\ MaxU64 \in Nat /\ MaxUsize \in Nat

VARIABLES
  records,   (* the records of the memory store                             *)
  inserts,   (* the calls of insert_verified: [at, descriptor, bytes,       *)
             (* outcome]                                                    *)
  reads      (* the calls of read_asset_fully: [at, asset, port,            *)
             (* descriptor, offset, output, result]                         *)

assetVars == <<records, inserts, reads>>

Inserters == DOMAIN inserts
Readers == DOMAIN reads

---------------------------------------------------------------------------
(* Descriptors, ranges, chunks.                                             *)

(* A hash stands for the content it is the digest of: SHA-256 is taken to   *)
(* have no collisions.                                                      *)
Digest(bytes) == [sha256 |-> bytes]

Descriptor(asset, media, length, hash, filename) ==
  [asset_id |-> asset, media_type |-> media, byte_length |-> length,
   content_hash |-> hash, original_filename |-> filename]

Hashes == {Digest(content) : content \in Contents}

(* A media type or a file name may be blank, a file name absent.            *)
Descriptors ==
  [asset_id : Assets, media_type : {"pdf", "blank"}, byte_length : 0..MaxU64,
   content_hash : Hashes, original_filename : {"file", "blank", "absent"}]

Records == [descriptor : Descriptors, bytes : Contents]

(* SourceAssetDescriptor::new, and the verification by insert_verified.     *)
DescriptorError(d) ==
  IF d.media_type = "blank" THEN "InvalidMediaType"
  ELSE IF d.original_filename = "blank" THEN "InvalidOriginalFilename" ELSE "none"

VerificationError(d, bytes) ==
  IF d.byte_length # Len(bytes) THEN "LengthMismatch"
  ELSE IF d.content_hash # Digest(bytes) THEN "HashMismatch" ELSE "none"

(* What is stored was verified; what is submitted is any descriptor with    *)
(* any content.                                                             *)
ASSUME ScenarioAssumption ==
  \A scenario \in Scenarios :
    /\ scenario.records \in [DOMAIN scenario.records -> Records]
    /\ \A a \in DOMAIN scenario.records :
         VerificationError(scenario.records[a].descriptor, scenario.records[a].bytes)
           = "none"
    /\ scenario.inserts \in [DOMAIN scenario.inserts -> Records]
    /\ scenario.reads \in [DOMAIN scenario.reads ->
                             [asset : Assets, port : {"memory", "other"}]]

ValidRange(offset, length) == length > 0 /\ offset + length <= MaxU64

(* AssetByteChunk::new.                                                     *)
ValidChunk(offset, bytes, total) ==
  /\ offset <= total
  /\ offset + Len(bytes) <= MaxU64
  /\ offset + Len(bytes) <= total
  /\ bytes # <<>> \/ offset = total

Chunk(offset, bytes, total) ==
  [status |-> "chunk", offset |-> offset, bytes |-> bytes, total |-> total]

ReadFailure(error) ==
  [status |-> error, offset |-> 0, bytes |-> <<>>, total |-> 0]

ReadErrors == {"NotFound", "RangeOutOfBounds", "Unavailable"}

NoDescriptor == [byte_length |-> 0]

---------------------------------------------------------------------------
(* insert_verified.  Nothing is locked while the bytes are verified.        *)

InsertOutcomes == {"Inserted", "Existing"}

Refuse(i, error) == inserts' = [inserts EXCEPT ![i].at = "done", ![i].outcome = error]

VerifyInsert(i) ==
  LET d == inserts[i].descriptor
      bytes == inserts[i].bytes
  IN  /\ inserts[i].at = "asked"
      /\ IF DescriptorError(d) # "none" THEN Refuse(i, DescriptorError(d))
         ELSE IF VerificationError(d, bytes) # "none"
              THEN Refuse(i, VerificationError(d, bytes))
              ELSE inserts' = [inserts EXCEPT ![i].at = "verified"]
      /\ UNCHANGED <<records, reads>>

Record(i) == [descriptor |-> inserts[i].descriptor, bytes |-> inserts[i].bytes]

StoreRecord(i) ==
  records' = [a \in DOMAIN records \cup {inserts[i].descriptor.asset_id} |->
                IF a = inserts[i].descriptor.asset_id THEN Record(i) ELSE records[a]]

(* Mutated form: what exists is replaced.                                   *)
CommitInsertReplacing(i) ==
  /\ inserts[i].at = "verified"
  /\ StoreRecord(i)
  /\ inserts' = [inserts EXCEPT ![i].at = "done", ![i].outcome = "Inserted"]
  /\ UNCHANGED reads

(* Under the write lock.                                                    *)
CommitInsert(i) ==
  LET asset == inserts[i].descriptor.asset_id
      Outcome(outcome) ==
        inserts' = [inserts EXCEPT ![i].at = "done", ![i].outcome = outcome]
  IN  /\ inserts[i].at = "verified"
      /\ \/ /\ asset \notin DOMAIN records
            /\ StoreRecord(i)
            /\ Outcome("Inserted")
         \/ /\ asset \in DOMAIN records
            /\ Outcome(IF records[asset] = Record(i) THEN "Existing" ELSE "AssetConflict")
            /\ UNCHANGED records
      /\ UNCHANGED reads

---------------------------------------------------------------------------
(* What the ports answer.                                                   *)

Found(d) == [status |-> "found", descriptor |-> d]
Missing(status) == [status |-> status, descriptor |-> NoDescriptor]

CatalogAnswers(port, asset) ==
  IF port = "memory"
  THEN {IF asset \in DOMAIN records THEN Found(records[asset].descriptor)
                                    ELSE Missing("NotFound")}
  ELSE {Missing("NotFound"), Missing("CatalogUnavailable")}
         \cup {Found(Descriptor(asset, "pdf", n, Digest(<<>>), "absent")) :
                 n \in 0..MaxU64}

(* read_range of the memory store, under the read lock.                     *)
MemoryRange(asset, offset, length) ==
  LET total == records[asset].descriptor.byte_length
      end == IF offset + length < total THEN offset + length ELSE total
  IN  IF asset \notin DOMAIN records THEN ReadFailure("NotFound")
      ELSE IF offset > total THEN ReadFailure("RangeOutOfBounds")
      ELSE Chunk(offset, SubSeq(records[asset].bytes, offset + 1, end), total)

ReadAnswers(port, asset, offset, length) ==
  IF port = "memory"
  THEN {MemoryRange(asset, offset, length)}
  ELSE {ReadFailure(error) : error \in ReadErrors}
         \cup {Chunk(c[1], c[2], c[3]) :
                 c \in {claim \in (0..MaxU64) \X Contents \X (0..MaxU64) :
                          ValidChunk(claim[1], claim[2], claim[3])}}

---------------------------------------------------------------------------
(* read_asset_fully.                                                        *)

ReadEnds(r, result) == reads' = [reads EXCEPT ![r].at = "done", ![r].result = result]

BeginRead(r) ==
  /\ reads[r].at = "idle"
  /\ reads' = [reads EXCEPT ![r].at = "lookup"]
  /\ UNCHANGED <<records, inserts>>

Lookup(r) ==
  /\ reads[r].at = "lookup"
  /\ \E answer \in CatalogAnswers(reads[r].port, reads[r].asset) :
       IF answer.status # "found" THEN ReadEnds(r, answer.status)
       ELSE IF answer.descriptor.byte_length > MaxBytes
            THEN ReadEnds(r, "AssetTooLarge")
       ELSE IF answer.descriptor.byte_length > MaxUsize
            THEN ReadEnds(r, "LengthOverflow")
            ELSE reads' = [reads EXCEPT ![r].at = "reading",
                                        ![r].descriptor = answer.descriptor]
  /\ UNCHANGED <<records, inserts>>

(* Mutated form: the length of a chunk is left to its constructor, which    *)
(* compares it with the total that the chunk itself announces.              *)
ChunkFaultTrusting(chunk, offset, length, total) == chunk.offset # offset

(* A chunk must be the one asked for.                                       *)
ChunkFault(chunk, offset, length, total) ==
  \/ chunk.offset # offset \/ chunk.total # total
  \/ Len(chunk.bytes) # length
  \/ chunk.offset + Len(chunk.bytes) <= offset
  \/ chunk.offset + Len(chunk.bytes) > total

(* Mutated form: when the reader is unavailable the read starts over.       *)
ReadChunkRetrying(r) ==
  LET total == reads[r].descriptor.byte_length
      offset == reads[r].offset
      length == IF total - offset < ReadChunkSize THEN total - offset ELSE ReadChunkSize
  IN  /\ reads[r].at = "reading"
      /\ offset < total
      /\ \E answer \in ReadAnswers(reads[r].port, reads[r].asset, offset, length) :
           IF ~ValidRange(offset, length) THEN ReadEnds(r, "InvalidChunk")
           ELSE IF answer.status = "Unavailable"
           THEN reads' = [reads EXCEPT ![r].at = "lookup", ![r].offset = 0,
                                       ![r].output = <<>>]
           ELSE IF answer.status # "chunk" THEN ReadEnds(r, "Reader")
           ELSE IF ChunkFault(answer, offset, length, total)
                THEN ReadEnds(r, "InvalidChunk")
                ELSE reads' = [reads EXCEPT ![r].output = @ \o answer.bytes,
                                            ![r].offset = offset + Len(answer.bytes)]
      /\ UNCHANGED <<records, inserts>>

(* One turn of the loop.                                                    *)
ReadChunk(r) ==
  LET total == reads[r].descriptor.byte_length
      offset == reads[r].offset
      length == IF total - offset < ReadChunkSize THEN total - offset ELSE ReadChunkSize
  IN  /\ reads[r].at = "reading"
      /\ offset < total
      /\ \E answer \in ReadAnswers(reads[r].port, reads[r].asset, offset, length) :
           IF ~ValidRange(offset, length) THEN ReadEnds(r, "InvalidChunk")
           ELSE IF answer.status # "chunk" THEN ReadEnds(r, "Reader")
           ELSE IF ChunkFault(answer, offset, length, total)
                THEN ReadEnds(r, "InvalidChunk")
                ELSE reads' = [reads EXCEPT ![r].output = @ \o answer.bytes,
                                            ![r].offset = offset + Len(answer.bytes)]
      /\ UNCHANGED <<records, inserts>>

FinishRead(r) ==
  LET total == reads[r].descriptor.byte_length
  IN  /\ reads[r].at = "reading"
      /\ reads[r].offset >= total
      /\ ReadEnds(r, IF Len(reads[r].output) # total THEN "InvalidChunk" ELSE "Ok")
      /\ UNCHANGED <<records, inserts>>

---------------------------------------------------------------------------
Submitted(request) ==
  [at |-> "asked", descriptor |-> request.descriptor, bytes |-> request.bytes,
   outcome |-> "none"]

Idle(read) ==
  [at |-> "idle", asset |-> read.asset, port |-> read.port,
   descriptor |-> NoDescriptor, offset |-> 0, output |-> <<>>, result |-> "none"]

StartFrom(scenario) ==
  /\ records = scenario.records
  /\ inserts = [i \in DOMAIN scenario.inserts |-> Submitted(scenario.inserts[i])]
  /\ reads = [r \in DOMAIN scenario.reads |-> Idle(scenario.reads[r])]

AssetInit == \E scenario \in Scenarios : StartFrom(scenario)

Insert(i) == VerifyInsert(i) \/ CommitInsert(i)

ReadStep(r) == Lookup(r) \/ ReadChunk(r) \/ FinishRead(r)

AssetNext ==
  \/ \E i \in Inserters : Insert(i)
  \/ \E r \in Readers : BeginRead(r) \/ ReadStep(r)

AssetSpec == AssetInit /\ [][AssetNext]_assetVars

---------------------------------------------------------------------------
(* Properties.                                                              *)

(* A read never holds more than the bytes it has asked for, never more than *)
(* the descriptor it looked up last announced and never more than the       *)
(* caller's limit, whatever the catalog and the reader answer: the catalog  *)
(* may announce another length at the second lookup, and a chunk may claim  *)
(* any place in the asset.                                                  *)
ReadsBounded ==
  \A r \in Readers :
    /\ Len(reads[r].output) = reads[r].offset
    /\ reads[r].offset <= reads[r].descriptor.byte_length
    /\ reads[r].descriptor.byte_length <= MaxBytes
    /\ reads[r].descriptor.byte_length <= MaxUsize
    /\ reads[r].result = "Ok" =>
         Len(reads[r].output) = reads[r].descriptor.byte_length

(* A read from the memory store that succeeds returns the content its       *)
(* descriptor's hash was verified for, although each range is read under a  *)
(* lock of its own while other callers insert.                              *)
ReadIsVerified ==
  \A r \in Readers :
    reads[r].result = "Ok" /\ reads[r].port = "memory" =>
      Digest(reads[r].output) = reads[r].descriptor.content_hash

(* What insert_verified has acknowledged is what the store holds, for good: *)
(* callers that verified conflicting contents at the same time cannot both  *)
(* be told that theirs is stored.                                           *)
AcknowledgedInsertStays ==
  \A i \in Inserters :
    inserts[i].outcome \in InsertOutcomes =>
      /\ inserts[i].descriptor.asset_id \in DOMAIN records
      /\ records[inserts[i].descriptor.asset_id] = Record(i)
=============================================================================
