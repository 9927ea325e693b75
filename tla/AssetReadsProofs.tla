--------------------------- MODULE AssetReadsProofs ---------------------------
(***************************************************************************)
(* Proofs about AssetReads for any assets, contents, limits and scenarios. *)
(*                                                                         *)
(* The argument: a record of the store is never replaced, so an insert     *)
(* that was acknowledged stays, and the ranges of a read are taken from    *)
(* one and the same verified content; a chunk is appended only when it is  *)
(* as long as the range that was asked for, which never reaches beyond the *)
(* length that was compared with the limit at the lookup.                  *)
(***************************************************************************)
EXTENDS AssetReads, SequenceTheorems, TLAPS

Outcomes == InsertOutcomes \cup
  {"none", "AssetConflict", "InvalidMediaType", "InvalidOriginalFilename",
   "LengthMismatch", "HashMismatch"}

Inserting == [at : {"asked", "verified", "done"}, descriptor : Descriptors,
              bytes : Contents, outcome : Outcomes]

Failures == {"NotFound", "CatalogUnavailable", "AssetTooLarge", "LengthOverflow",
             "Reader", "InvalidChunk"}

Reading == [at : {"idle", "lookup", "reading", "done"}, asset : Assets,
            port : {"memory", "other"}, descriptor : Descriptors \cup {NoDescriptor},
            offset : Nat, output : Seq(Nat), result : Failures \cup {"none", "Ok"}]

AssetTypeOK ==
  /\ records \in [DOMAIN records -> Records]
  /\ inserts \in [DOMAIN inserts -> Inserting]
  /\ reads \in [DOMAIN reads -> Reading]

(* What the store holds was verified, and so was what it is about to take.  *)
StoreVerified ==
  /\ \A a \in DOMAIN records :
       VerificationError(records[a].descriptor, records[a].bytes) = "none"
  /\ \A i \in Inserters :
       inserts[i].at = "verified" =>
         VerificationError(inserts[i].descriptor, inserts[i].bytes) = "none"

(* A read that has not found its descriptor holds nothing, and only a read  *)
(* that is done has a result.                                               *)
ReadsFresh ==
  \A r \in Readers :
    /\ reads[r].at \in {"idle", "lookup"} => reads[r].offset = 0
    /\ reads[r].at # "done" => reads[r].result = "none"

(* What a read from the memory store has gathered is the beginning of the   *)
(* content whose descriptor it looked up.                                   *)
ReadsFollowStore ==
  \A r \in Readers :
    reads[r].port = "memory" /\ (reads[r].at = "reading" \/ reads[r].result = "Ok") =>
      /\ reads[r].asset \in DOMAIN records
      /\ reads[r].descriptor = records[reads[r].asset].descriptor
      /\ reads[r].output = SubSeq(records[reads[r].asset].bytes, 1, reads[r].offset)

(* The inductive invariant, by what its parts are about.                    *)
StoreInv == StoreVerified /\ AcknowledgedInsertStays
ReadInv == ReadsFresh /\ ReadsBounded /\ ReadsFollowStore
AssetInv == AssetTypeOK /\ StoreInv /\ ReadInv

(* Every descriptor of a read has a length.                                 *)
LEMMA LengthsAreNaturals ==
  ASSUME NEW d \in Descriptors \cup {NoDescriptor}
  PROVE  d.byte_length \in Nat
BY AssetAssumption DEF Descriptors, NoDescriptor

(* A record of the store has as many bytes as its descriptor says.          *)
LEMMA RecordsFit ==
  ASSUME AssetTypeOK, StoreVerified, NEW asset \in DOMAIN records
  PROVE  /\ records[asset].bytes \in Seq(Nat)
         /\ records[asset].descriptor \in Descriptors
         /\ records[asset].descriptor.byte_length = Len(records[asset].bytes)
         /\ records[asset].descriptor.content_hash = Digest(records[asset].bytes)
BY AssetAssumption DEF AssetTypeOK, StoreVerified, Records, VerificationError

(* A chunk of the memory store is the part of the content that was asked    *)
(* for, cut at its end.                                                     *)
LEMMA MemoryAnswers ==
  ASSUME AssetTypeOK, StoreVerified, NEW asset, NEW offset \in Nat, NEW length \in Nat,
         NEW answer \in ReadAnswers("memory", asset, offset, length),
         answer.status = "chunk"
  PROVE  /\ asset \in DOMAIN records
         /\ answer.bytes \in Seq(Nat)
         /\ offset + length <= Len(records[asset].bytes) =>
              answer.bytes = SubSeq(records[asset].bytes, offset + 1, offset + length)
<1>1. answer = MemoryRange(asset, offset, length)
  BY DEF ReadAnswers
<1>2. asset \in DOMAIN records
  BY <1>1 DEF MemoryRange, ReadFailure
<1>. DEFINE content == records[asset].bytes
            total == records[asset].descriptor.byte_length
            end == IF offset + length < total THEN offset + length ELSE total
<1>3. content \in Seq(Nat) /\ total = Len(content) /\ total \in Nat
  BY <1>2, RecordsFit, LengthsAreNaturals
<1>4. end \in Nat /\ end <= Len(content)
         /\ (offset + length <= Len(content) => end = offset + length)
  <2>. HIDE DEF content, total
  <2>. QED BY <1>3
<1>5. answer = Chunk(offset, SubSeq(content, offset + 1, end), total)
  BY <1>1, <1>2 DEF MemoryRange, ReadFailure
<1>6. answer.bytes = SubSeq(content, offset + 1, end)
  BY <1>5 DEF Chunk
<1>. HIDE DEF content, end
<1>7. \A i \in (offset + 1)..end : content[i] \in Nat
  BY <1>3, <1>4
<1>8. SubSeq(content, offset + 1, end) \in Seq(Nat)
  BY <1>4, <1>7, SubSeqProperties
<1>. QED
  BY <1>2, <1>4, <1>6, <1>8 DEF content

(* The bytes of a chunk that a reader answers are bytes.                    *)
LEMMA AnswersHaveBytes ==
  ASSUME AssetTypeOK, StoreVerified, NEW port, NEW asset, NEW offset \in Nat,
         NEW length \in Nat, NEW answer \in ReadAnswers(port, asset, offset, length),
         answer.status = "chunk"
  PROVE  answer.bytes \in Seq(Nat)
<1>1. CASE port = "memory"
  BY <1>1, MemoryAnswers
<1>2. CASE port # "memory"
  <2>1. \/ answer \in {ReadFailure(error) : error \in ReadErrors}
        \/ \E c \in (0..MaxU64) \X Contents \X (0..MaxU64) :
             answer = Chunk(c[1], c[2], c[3])
    BY <1>2 DEF ReadAnswers
  <2>2. answer \notin {ReadFailure(error) : error \in ReadErrors}
    BY DEF ReadFailure, ReadErrors
  <2>3. PICK c \in (0..MaxU64) \X Contents \X (0..MaxU64) :
               answer = Chunk(c[1], c[2], c[3])
    BY <2>1, <2>2
  <2>. QED
    BY <2>3, AssetAssumption DEF Chunk
<1>. QED
  BY <1>1, <1>2

(* A catalog answers with a descriptor or with a failure.                   *)
LEMMA CatalogHasDescriptors ==
  ASSUME AssetTypeOK, NEW port, NEW asset \in Assets,
         NEW answer \in CatalogAnswers(port, asset)
  PROVE  \/ answer.status = "found" /\ answer.descriptor \in Descriptors
         \/ answer.status \in {"NotFound", "CatalogUnavailable"}
<1>1. CASE port = "memory"
  <2>1. CASE asset \in DOMAIN records
    <3>1. answer = Found(records[asset].descriptor)
      BY <1>1, <2>1 DEF CatalogAnswers
    <3>2. records[asset].descriptor \in Descriptors
      BY <2>1 DEF AssetTypeOK, Records
    <3>. QED
      BY <3>1, <3>2 DEF Found
  <2>2. CASE asset \notin DOMAIN records
    <3>1. answer = Missing("NotFound")
      BY <1>1, <2>2 DEF CatalogAnswers
    <3>. QED
      BY <3>1 DEF Missing
  <2>. QED
    BY <2>1, <2>2
<1>2. CASE port # "memory"
  <2>1. CASE answer \in {Missing("NotFound"), Missing("CatalogUnavailable")}
    BY <2>1 DEF Missing
  <2>2. CASE \E n \in 0..MaxU64 :
               answer = Found(Descriptor(asset, "pdf", n, Digest(<<>>), "absent"))
    <3>1. PICK n \in 0..MaxU64 :
                 answer = Found(Descriptor(asset, "pdf", n, Digest(<<>>), "absent"))
      BY <2>2
    <3>2. Digest(<<>>) \in Hashes
      BY AssetAssumption DEF Hashes
    <3>3. Descriptor(asset, "pdf", n, Digest(<<>>), "absent") \in Descriptors
      BY <3>2 DEF Descriptor, Descriptors
    <3>. QED
      BY <3>1, <3>3 DEF Found
  <2>. QED
    BY <1>2, <2>1, <2>2 DEF CatalogAnswers
<1>. QED
  BY <1>1, <1>2

(* What is stored initially was verified, and nothing has happened yet.     *)
LEMMA StartSatisfiesInv == AssetInit => AssetInv
<1>. SUFFICES ASSUME NEW scenario \in Scenarios, StartFrom(scenario)
              PROVE  AssetInv
  BY DEF AssetInit
<1>1. /\ scenario.records \in [DOMAIN scenario.records -> Records]
      /\ \A a \in DOMAIN scenario.records :
           VerificationError(scenario.records[a].descriptor, scenario.records[a].bytes)
             = "none"
      /\ scenario.inserts \in [DOMAIN scenario.inserts -> Records]
      /\ scenario.reads \in [DOMAIN scenario.reads ->
                               [asset : Assets, port : {"memory", "other"}]]
  BY ScenarioAssumption
<1>2. /\ records = scenario.records
      /\ inserts = [i \in DOMAIN scenario.inserts |-> Submitted(scenario.inserts[i])]
      /\ reads = [r \in DOMAIN scenario.reads |-> Idle(scenario.reads[r])]
  BY DEF StartFrom
<1>3. \A i \in Inserters : inserts[i] \in Inserting /\ inserts[i].at = "asked"
                             /\ inserts[i].outcome = "none"
  BY <1>1, <1>2 DEF Submitted, Inserters, Inserting, Records, Outcomes
<1>4. \A r \in Readers :
        /\ reads[r] \in Reading
        /\ reads[r].at = "idle" /\ reads[r].result = "none" /\ reads[r].offset = 0
        /\ reads[r].output = <<>> /\ reads[r].descriptor = NoDescriptor
  BY <1>1, <1>2 DEF Idle, Readers, Reading
<1>5. AssetTypeOK
  BY <1>1, <1>2, <1>3, <1>4 DEF AssetTypeOK, Inserters, Readers
<1>6. StoreInv
  BY <1>1, <1>2, <1>3
     DEF StoreInv, StoreVerified, AcknowledgedInsertStays, InsertOutcomes
<1>7. ReadInv
  BY <1>4, AssetAssumption
     DEF ReadInv, ReadsFresh, ReadsBounded, ReadsFollowStore, NoDescriptor
<1>. QED
  BY <1>5, <1>6, <1>7 DEF AssetInv

(* Verifying an insert changes nothing but the call itself, which is        *)
(* verified afterwards or has been refused.                                 *)
LEMMA VerifyKeepsInv ==
  ASSUME AssetInv, NEW i \in Inserters, VerifyInsert(i)
  PROVE  AssetInv'
<1>. USE DEF AssetInv, StoreInv
<1>1. records' = records /\ reads' = reads
  BY DEF VerifyInsert
<1>. DEFINE d == inserts[i].descriptor
            bytes == inserts[i].bytes
<1>2. \/ VerificationError(d, bytes) = "none"
           /\ inserts' = [inserts EXCEPT ![i].at = "verified"]
      \/ \E error \in Outcomes \ InsertOutcomes :
           inserts' = [inserts EXCEPT ![i].at = "done", ![i].outcome = error]
  BY DEF VerifyInsert, Refuse, DescriptorError, VerificationError, Outcomes, InsertOutcomes
<1>3. inserts' \in [DOMAIN inserts -> Inserting] /\ DOMAIN inserts' = DOMAIN inserts
  <2>1. inserts[i] \in Inserting
    BY DEF AssetTypeOK, Inserters
  <2>2. PICK call : inserts' = [inserts EXCEPT ![i] = call] /\ call \in Inserting
    <3>1. CASE inserts' = [inserts EXCEPT ![i].at = "verified"]
      <4>1. [inserts[i] EXCEPT !.at = "verified"] \in Inserting
        BY <2>1 DEF Inserting
      <4>. QED
        BY <3>1, <4>1
    <3>2. CASE \E error \in Outcomes \ InsertOutcomes :
                 inserts' = [inserts EXCEPT ![i].at = "done", ![i].outcome = error]
      <4>1. PICK error \in Outcomes :
              inserts' = [inserts EXCEPT ![i].at = "done", ![i].outcome = error]
        BY <3>2
      <4>2. [inserts[i] EXCEPT !.at = "done", !.outcome = error] \in Inserting
        BY <2>1 DEF Inserting
      <4>3. inserts' = [inserts EXCEPT ![i] = [@ EXCEPT !.at = "done", !.outcome = error]]
        BY <4>1 DEF AssetTypeOK, Inserters
      <4>. QED
        BY <4>2, <4>3
    <3>. QED
      BY <1>2, <3>1, <3>2
  <2>. QED
    BY <2>2 DEF AssetTypeOK, Inserters
<1>4. \A j \in Inserters :
        /\ inserts'[j].descriptor = inserts[j].descriptor
        /\ inserts'[j].bytes = inserts[j].bytes
        /\ inserts'[j].outcome \in InsertOutcomes =>
             inserts'[j].outcome = inserts[j].outcome
        /\ inserts'[j].at = "verified" =>
             VerificationError(inserts[j].descriptor, inserts[j].bytes) = "none"
  <2>1. CASE /\ VerificationError(d, bytes) = "none"
             /\ inserts' = [inserts EXCEPT ![i].at = "verified"]
    BY <2>1 DEF AssetTypeOK, StoreVerified, Inserting, Inserters
  <2>2. CASE \E error \in Outcomes \ InsertOutcomes :
               inserts' = [inserts EXCEPT ![i].at = "done", ![i].outcome = error]
    BY <2>2 DEF AssetTypeOK, StoreVerified, Inserting, Inserters
  <2>. QED
    BY <1>2, <2>1, <2>2
<1>5. AssetTypeOK'
  BY <1>1, <1>3 DEF AssetTypeOK
<1>6. StoreVerified'
  BY <1>1, <1>3, <1>4 DEF StoreVerified, Inserters
<1>7. AcknowledgedInsertStays'
  BY <1>1, <1>3, <1>4 DEF AcknowledgedInsertStays, Inserters, Record
<1>8. ReadInv'
  BY <1>1 DEF ReadInv, ReadsFresh, ReadsBounded, ReadsFollowStore, Readers
<1>. QED
  BY <1>5, <1>6, <1>7, <1>8

(* Committing an insert adds a record that was verified or leaves the store *)
(* as it is: what the store holds stays, and so does what reads rely on.    *)
LEMMA CommitKeepsInv ==
  ASSUME AssetInv, NEW i \in Inserters, CommitInsert(i)
  PROVE  AssetInv'
<1>. USE DEF AssetInv, StoreInv
<1>. DEFINE asset == inserts[i].descriptor.asset_id
<1>1. reads' = reads /\ inserts[i].at = "verified"
  BY DEF CommitInsert
<1>2. Record(i) \in Records
      /\ VerificationError(Record(i).descriptor, Record(i).bytes) = "none"
  BY <1>1 DEF AssetTypeOK, StoreVerified, Record, Records, Inserting, Inserters
<1>3. PICK outcome \in Outcomes :
        /\ inserts' = [inserts EXCEPT ![i].at = "done", ![i].outcome = outcome]
        /\ \/ /\ asset \notin DOMAIN records
              /\ StoreRecord(i)
              /\ outcome = "Inserted"
           \/ /\ asset \in DOMAIN records
              /\ outcome = IF records[asset] = Record(i) THEN "Existing" ELSE "AssetConflict"
              /\ records' = records
  BY DEF CommitInsert, Outcomes, InsertOutcomes
<1>4. /\ records' \in [DOMAIN records' -> Records]
      /\ \A a \in DOMAIN records : a \in DOMAIN records' /\ records'[a] = records[a]
      /\ \A a \in DOMAIN records' : a \in DOMAIN records \/ records'[a] = Record(i)
      /\ outcome \in InsertOutcomes =>
           asset \in DOMAIN records' /\ records'[asset] = Record(i)
  <2>1. CASE asset \notin DOMAIN records /\ StoreRecord(i) /\ outcome = "Inserted"
    BY <1>2, <2>1 DEF StoreRecord, AssetTypeOK
  <2>2. CASE /\ asset \in DOMAIN records
             /\ outcome = IF records[asset] = Record(i) THEN "Existing" ELSE "AssetConflict"
             /\ records' = records
    BY <2>2 DEF InsertOutcomes, AssetTypeOK
  <2>. QED
    BY <1>3, <2>1, <2>2
<1>5. inserts' \in [DOMAIN inserts -> Inserting] /\ DOMAIN inserts' = DOMAIN inserts
  BY <1>3 DEF AssetTypeOK, Inserting, Inserters
<1>6. \A j \in Inserters :
        /\ inserts'[j].descriptor = inserts[j].descriptor
        /\ inserts'[j].bytes = inserts[j].bytes
        /\ inserts'[j].at = "verified" => inserts[j].at = "verified"
        /\ inserts'[j].outcome = IF j = i THEN outcome ELSE inserts[j].outcome
  BY <1>3 DEF AssetTypeOK, Inserting, Inserters
<1>7. AssetTypeOK'
  BY <1>1, <1>4, <1>5 DEF AssetTypeOK
<1>8. StoreVerified'
  BY <1>2, <1>4, <1>5, <1>6 DEF StoreVerified, Inserters
<1>9. AcknowledgedInsertStays'
  <2>. SUFFICES ASSUME NEW j \in Inserters, inserts'[j].outcome \in InsertOutcomes
                PROVE  /\ inserts[j].descriptor.asset_id \in DOMAIN records'
                       /\ records'[inserts[j].descriptor.asset_id] = Record(j)
    BY <1>5, <1>6 DEF AcknowledgedInsertStays, Inserters, Record
  <2>1. CASE j = i
    BY <1>4, <1>6, <2>1
  <2>2. CASE j # i
    BY <1>4, <1>6, <2>2 DEF AcknowledgedInsertStays
  <2>. QED
    BY <2>1, <2>2
<1>10. ReadsFollowStore'
  BY <1>1, <1>4 DEF ReadInv, ReadsFollowStore, Readers
<1>11. ReadsFresh' /\ ReadsBounded'
  BY <1>1 DEF ReadInv, ReadsFresh, ReadsBounded, Readers
<1>. QED
  BY <1>7, <1>8, <1>9, <1>10, <1>11 DEF ReadInv

(* What the invariant asks of one read.                                     *)
ReadOK(read) ==
  /\ read \in Reading
  /\ read.at \in {"idle", "lookup"} => read.offset = 0
  /\ read.at # "done" => read.result = "none"
  /\ Len(read.output) = read.offset
  /\ read.offset <= read.descriptor.byte_length
  /\ read.descriptor.byte_length <= MaxBytes
  /\ read.descriptor.byte_length <= MaxUsize
  /\ read.result = "Ok" => Len(read.output) = read.descriptor.byte_length
  /\ read.port = "memory" /\ (read.at = "reading" \/ read.result = "Ok") =>
       /\ read.asset \in DOMAIN records
       /\ read.descriptor = records[read.asset].descriptor
       /\ read.output = SubSeq(records[read.asset].bytes, 1, read.offset)

(* The reads part of the invariant, read by read.                           *)
LEMMA ReadsAreOK ==
  ASSUME AssetInv, NEW r \in Readers
  PROVE  ReadOK(reads[r])
BY DEF AssetInv, ReadInv, AssetTypeOK, ReadsFresh, ReadsBounded, ReadsFollowStore,
       Readers, ReadOK

(* A step that changes one read keeps the invariant if it keeps it for that *)
(* read.                                                                    *)
LEMMA OneReadKeepsInv ==
  ASSUME AssetInv, NEW r \in Readers, NEW next, ReadOK(next),
         reads' = [reads EXCEPT ![r] = next], UNCHANGED <<records, inserts>>
  PROVE  AssetInv'
<1>1. /\ DOMAIN reads' = DOMAIN reads
      /\ \A q \in Readers : ReadOK(reads'[q])
  BY ReadsAreOK DEF AssetInv, AssetTypeOK, Readers
<1>2. records' = records /\ inserts' = inserts
  OBVIOUS
<1>3. reads' \in [DOMAIN reads' -> Reading]
  BY <1>1 DEF ReadOK, AssetInv, AssetTypeOK, Readers
<1>4. AssetTypeOK'
  BY <1>2, <1>3 DEF AssetInv, AssetTypeOK
<1>5. StoreInv'
  BY <1>2 DEF AssetInv, StoreInv, StoreVerified, AcknowledgedInsertStays, Record, Inserters
<1>6. ReadInv'
  BY <1>1, <1>2
     DEF ReadOK, ReadInv, ReadsFresh, ReadsBounded, ReadsFollowStore, Readers
<1>. QED
  BY <1>4, <1>5, <1>6 DEF AssetInv

(* A read may end at any time with a failure, and with success when it has  *)
(* gathered the whole asset.                                                *)
LEMMA EndKeepsInv ==
  ASSUME AssetInv, NEW r \in Readers, NEW result \in Failures \cup {"Ok"},
         result = "Ok" => /\ reads[r].at = "reading"
                          /\ Len(reads[r].output) = reads[r].descriptor.byte_length,
         ReadEnds(r, result), UNCHANGED <<records, inserts>>
  PROVE  AssetInv'
<1>. DEFINE next == [reads[r] EXCEPT !.at = "done", !.result = result]
<1>1. reads' = [reads EXCEPT ![r] = next]
  BY DEF ReadEnds, AssetInv, AssetTypeOK, Readers, Reading
<1>2. ReadOK(next)
  BY ReadsAreOK, ZenonT(60) DEF ReadOK, Reading, Failures
<1>. QED
  BY <1>1, <1>2, OneReadKeepsInv

(* A read begins with nothing.                                              *)
LEMMA BeginKeepsInv ==
  ASSUME AssetInv, NEW r \in Readers, BeginRead(r)
  PROVE  AssetInv'
<1>. DEFINE next == [reads[r] EXCEPT !.at = "lookup"]
<1>1. reads' = [reads EXCEPT ![r] = next]
  BY DEF BeginRead, AssetInv, AssetTypeOK, Readers, Reading
<1>2. ReadOK(next)
  BY ReadsAreOK DEF BeginRead, ReadOK, Reading
<1>. QED
  BY <1>1, <1>2, OneReadKeepsInv DEF BeginRead

(* The lookup admits a descriptor within the limits only.                   *)
LEMMA LookupKeepsInv ==
  ASSUME AssetInv, NEW r \in Readers, Lookup(r)
  PROVE  AssetInv'
<1>. USE DEF AssetInv
<1>1. /\ reads[r].at = "lookup" /\ UNCHANGED <<records, inserts>>
      /\ ReadOK(reads[r])
  BY ReadsAreOK DEF Lookup
<1>2. PICK answer \in CatalogAnswers(reads[r].port, reads[r].asset) :
        \/ answer.status # "found" /\ ReadEnds(r, answer.status)
        \/ ReadEnds(r, "AssetTooLarge")
        \/ ReadEnds(r, "LengthOverflow")
        \/ /\ answer.status = "found"
           /\ ~(answer.descriptor.byte_length > MaxBytes)
           /\ ~(answer.descriptor.byte_length > MaxUsize)
           /\ reads' = [reads EXCEPT ![r].at = "reading",
                                     ![r].descriptor = answer.descriptor]
  BY DEF Lookup
<1>3. \/ answer.status = "found" /\ answer.descriptor \in Descriptors
      \/ answer.status \in {"NotFound", "CatalogUnavailable"}
  BY <1>1, CatalogHasDescriptors DEF ReadOK, Reading
<1>4. CASE \E result \in Failures : ReadEnds(r, result)
  BY <1>1, <1>4, EndKeepsInv DEF Failures
<1>5. CASE /\ answer.status = "found"
           /\ ~(answer.descriptor.byte_length > MaxBytes)
           /\ ~(answer.descriptor.byte_length > MaxUsize)
           /\ reads' = [reads EXCEPT ![r].at = "reading",
                                     ![r].descriptor = answer.descriptor]
  <2>. DEFINE next == [reads[r] EXCEPT !.at = "reading", !.descriptor = answer.descriptor]
  <2>1. reads' = [reads EXCEPT ![r] = next]
    BY <1>5 DEF AssetTypeOK, Readers, Reading
  <2>2. /\ answer.descriptor.byte_length \in Nat
        /\ answer.descriptor.byte_length <= MaxBytes
        /\ answer.descriptor.byte_length <= MaxUsize
    BY <1>3, <1>5, LengthsAreNaturals, AssetAssumption
  <2>3. reads[r].offset = 0 /\ reads[r].output = <<>>
    BY <1>1 DEF ReadOK, Reading
  <2>4. ASSUME reads[r].port = "memory"
        PROVE  /\ reads[r].asset \in DOMAIN records
               /\ answer.descriptor = records[reads[r].asset].descriptor
               /\ reads[r].output = SubSeq(records[reads[r].asset].bytes, 1, 0)
    <3>1. /\ reads[r].asset \in DOMAIN records
          /\ answer.descriptor = records[reads[r].asset].descriptor
      BY <1>5, <2>4 DEF CatalogAnswers, Found, Missing
    <3>2. SubSeq(records[reads[r].asset].bytes, 1, 0) = <<>>
      BY SubSeqEmpty
    <3>. QED
      BY <2>3, <3>1, <3>2
  <2>5. next \in Reading
    BY <1>1, <1>3, <1>5 DEF ReadOK, Reading
  <2>6. /\ next.at = "reading" /\ next.result = "none" /\ next.offset = 0
        /\ next.output = <<>> /\ next.descriptor = answer.descriptor
        /\ next.port = reads[r].port /\ next.asset = reads[r].asset
    BY <1>1, <2>3 DEF ReadOK, Reading
  <2>. HIDE DEF next
  <2>7. ReadOK(next)
    BY <2>2, <2>4, <2>5, <2>6 DEF ReadOK
  <2>. QED
    BY <1>1, <2>1, <2>7, OneReadKeepsInv
<1>. QED
  BY <1>2, <1>3, <1>4, <1>5 DEF Failures

(* One turn of the loop appends a chunk of the length that was asked for.   *)
LEMMA ChunkKeepsInv ==
  ASSUME AssetInv, NEW r \in Readers, ReadChunk(r)
  PROVE  AssetInv'
<1>. USE DEF AssetInv, StoreInv
<1>. DEFINE total == reads[r].descriptor.byte_length
            offset == reads[r].offset
            length == IF total - offset < ReadChunkSize THEN total - offset
                                                        ELSE ReadChunkSize
<1>1. /\ reads[r].at = "reading" /\ UNCHANGED <<records, inserts>>
      /\ offset < total /\ ReadOK(reads[r])
  BY ReadsAreOK DEF ReadChunk
<1>2. /\ total \in Nat /\ offset \in Nat /\ reads[r].output \in Seq(Nat)
      /\ length \in Nat /\ offset + length <= total
  <2>1. total \in Nat /\ offset \in Nat /\ reads[r].output \in Seq(Nat)
    BY <1>1, LengthsAreNaturals DEF ReadOK, Reading
  <2>. HIDE DEF total, offset
  <2>. QED
    BY <1>1, <2>1, AssetAssumption
<1>3. PICK answer \in ReadAnswers(reads[r].port, reads[r].asset, offset, length) :
        \/ ReadEnds(r, "InvalidChunk")
        \/ ReadEnds(r, "Reader")
        \/ /\ answer.status = "chunk"
           /\ ~ChunkFault(answer, offset, length, total)
           /\ reads' = [reads EXCEPT ![r].output = @ \o answer.bytes,
                                     ![r].offset = offset + Len(answer.bytes)]
  BY DEF ReadChunk
<1>4. CASE ReadEnds(r, "InvalidChunk") \/ ReadEnds(r, "Reader")
  BY <1>1, <1>4, EndKeepsInv DEF Failures
<1>5. CASE /\ answer.status = "chunk"
           /\ ~ChunkFault(answer, offset, length, total)
           /\ reads' = [reads EXCEPT ![r].output = @ \o answer.bytes,
                                     ![r].offset = offset + Len(answer.bytes)]
  <2>. DEFINE next == [reads[r] EXCEPT !.output = @ \o answer.bytes,
                                       !.offset = offset + length]
  <2>1. answer.bytes \in Seq(Nat) /\ Len(answer.bytes) = length
    BY <1>2, <1>5, AnswersHaveBytes DEF ChunkFault
  <2>2. reads' = [reads EXCEPT ![r] = next]
    BY <1>5, <2>1 DEF AssetTypeOK, Readers, Reading
  <2>3. /\ next.output = reads[r].output \o answer.bytes /\ next.offset = offset + length
        /\ next.at = "reading" /\ next.result = "none"
        /\ next.descriptor = reads[r].descriptor
        /\ next.port = reads[r].port /\ next.asset = reads[r].asset
    BY <1>1 DEF ReadOK, Reading
  <2>4. /\ next.output \in Seq(Nat)
        /\ Len(next.output) = offset + length
    <3>1. Len(reads[r].output) = offset
      BY <1>1 DEF ReadOK
    <3>2. /\ reads[r].output \o answer.bytes \in Seq(Nat)
          /\ Len(reads[r].output \o answer.bytes)
               = Len(reads[r].output) + Len(answer.bytes)
      BY <1>2, <2>1, ConcatProperties
    <3>. HIDE DEF offset, length, next
    <3>. QED
      BY <2>1, <2>3, <3>1, <3>2
  <2>5. next \in Reading
    <3>1. offset + length \in Nat
      <4>. HIDE DEF offset, length
      <4>. QED BY <1>2
    <3>2. reads[r].output \o answer.bytes \in Seq(Nat)
      BY <2>3, <2>4
    <3>. HIDE DEF length
    <3>. QED
      BY <1>1, <3>1, <3>2 DEF ReadOK, Reading
  <2>6. ASSUME reads[r].port = "memory"
        PROVE  /\ reads[r].asset \in DOMAIN records
               /\ reads[r].descriptor = records[reads[r].asset].descriptor
               /\ next.output = SubSeq(records[reads[r].asset].bytes, 1, offset + length)
    <3>. DEFINE content == records[reads[r].asset].bytes
    <3>1. /\ reads[r].asset \in DOMAIN records
          /\ reads[r].descriptor = records[reads[r].asset].descriptor
          /\ reads[r].output = SubSeq(content, 1, offset)
      BY <1>1, <2>6 DEF ReadOK
    <3>2. content \in Seq(Nat) /\ total = Len(content)
      BY <3>1, RecordsFit
    <3>3. answer.bytes = SubSeq(content, offset + 1, offset + length)
      <4>1. answer \in ReadAnswers("memory", reads[r].asset, offset, length)
        BY <2>6
      <4>2. offset + length <= Len(content)
        BY <1>2, <3>2
      <4>. HIDE DEF offset, length
      <4>. QED
        BY <1>2, <1>5, <4>1, <4>2, MemoryAnswers
    <3>4. SubSeq(content, 1, offset) \o SubSeq(content, offset + 1, offset + length)
            = SubSeq(content, 1, offset + length)
      <4>. HIDE DEF content, offset, length, total
      <4>1. /\ 1 \in 1..Len(content) + 1 /\ offset \in (1 - 1)..Len(content)
            /\ offset + length \in offset..Len(content)
        BY <1>2, <3>2
      <4>. QED
        BY <3>2, <4>1, ConcatAdjacentSubSeq
    <3>. QED
      BY <2>3, <3>1, <3>3, <3>4
  <2>7. ReadOK(next)
    <3>. HIDE DEF next, length
    <3>. QED
      BY <1>1, <1>2, <2>3, <2>4, <2>5, <2>6 DEF ReadOK
  <2>. QED
    BY <1>1, <2>2, <2>7, OneReadKeepsInv
<1>. QED
  BY <1>3, <1>4, <1>5

(* The end of the loop: the read succeeds with the whole asset.             *)
LEMMA FinishKeepsInv ==
  ASSUME AssetInv, NEW r \in Readers, FinishRead(r)
  PROVE  AssetInv'
<1>1. PICK result \in {"InvalidChunk", "Ok"} :
        /\ result = IF Len(reads[r].output) # reads[r].descriptor.byte_length
                    THEN "InvalidChunk" ELSE "Ok"
        /\ ReadEnds(r, result)
  BY DEF FinishRead
<1>2. reads[r].at = "reading" /\ UNCHANGED <<records, inserts>>
  BY DEF FinishRead
<1>. QED
  BY <1>1, <1>2, EndKeepsInv DEF Failures

(* AssetInv is inductive.                                                   *)
LEMMA AssetStepKeepsInv == AssetInv /\ [AssetNext]_assetVars => AssetInv'
<1>. SUFFICES ASSUME AssetInv, [AssetNext]_assetVars
              PROVE  AssetInv'
  OBVIOUS
<1>1. CASE \E i \in Inserters : Insert(i)
  BY <1>1, VerifyKeepsInv, CommitKeepsInv DEF Insert
<1>2. CASE \E r \in Readers : BeginRead(r) \/ ReadStep(r)
  BY <1>2, BeginKeepsInv, LookupKeepsInv, ChunkKeepsInv, FinishKeepsInv DEF ReadStep
<1>3. CASE UNCHANGED assetVars
  BY <1>3 DEF assetVars, AssetInv, AssetTypeOK, StoreInv, StoreVerified,
              AcknowledgedInsertStays, Record, ReadInv, ReadsFresh, ReadsBounded,
              ReadsFollowStore, Inserters, Readers
<1>. QED
  BY <1>1, <1>2, <1>3 DEF AssetNext

(* AssetInv holds in every state.                                           *)
LEMMA AssetInvHolds == AssetSpec => []AssetInv
BY StartSatisfiesInv, AssetStepKeepsInv, PTL DEF AssetSpec

(* What insert_verified has told a caller is stored stays stored, however   *)
(* many callers submit whatever they like.                                  *)
THEOREM AcknowledgedInsertsStay == AssetSpec => []AcknowledgedInsertStays
<1>1. AssetInv => AcknowledgedInsertStays
  BY DEF AssetInv, StoreInv
<1>. QED
  BY <1>1, AssetInvHolds, PTL

(* read_asset_fully never holds more than it has asked for, than was        *)
(* announced and than the caller allows, whatever the ports answer.         *)
THEOREM ReadsStayBounded == AssetSpec => []ReadsBounded
<1>1. AssetInv => ReadsBounded
  BY DEF AssetInv, ReadInv
<1>. QED
  BY <1>1, AssetInvHolds, PTL

(* What read_asset_fully returns from the memory store has the hash of its  *)
(* descriptor, although it is put together from ranges read one by one      *)
(* while other callers insert.                                              *)
THEOREM ReadsAreVerified == AssetSpec => []ReadIsVerified
<1>1. ASSUME AssetInv, NEW r \in Readers, reads[r].result = "Ok",
             reads[r].port = "memory"
      PROVE  Digest(reads[r].output) = reads[r].descriptor.content_hash
  <2>. DEFINE content == records[reads[r].asset].bytes
  <2>1. /\ reads[r].asset \in DOMAIN records
        /\ reads[r].descriptor = records[reads[r].asset].descriptor
        /\ reads[r].output = SubSeq(content, 1, reads[r].offset)
        /\ reads[r].offset = reads[r].descriptor.byte_length
    BY <1>1, ReadsAreOK DEF ReadOK
  <2>2. /\ content \in Seq(Nat) /\ reads[r].descriptor.byte_length = Len(content)
        /\ reads[r].descriptor.content_hash = Digest(content)
    BY <1>1, <2>1, RecordsFit DEF AssetInv, StoreInv
  <2>3. SubSeq(content, 1, Len(content)) = content
    BY <2>2, SubSeqFull
  <2>. QED
    BY <2>1, <2>2, <2>3
<1>2. AssetInv => ReadIsVerified
  BY <1>1 DEF ReadIsVerified
<1>. QED
  BY <1>2, AssetInvHolds, PTL
=============================================================================
