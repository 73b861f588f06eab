------------------------------ MODULE Producers -----------------------------
(***************************************************************************)
(* src/producers: ProducersController, ProducersService and                *)
(* ProducerPrismaRepository, over the producers table.                     *)
(***************************************************************************)
EXTENDS Store

CONSTANT ProducerRequests       \* requests to /producers handled at a time

VARIABLE producerCall

Producer == INSTANCE Keyed WITH
    Ids <- ProducerIds, Keys <- Documents, Requests <- ProducerRequests,
    table <- producers, call <- producerCall

otherThanProducers == <<farms, seasons, crops, planted>>

PostProducer(r) ==
    /\ \E document \in Documents : Producer!Post(r, document)
    /\ UNCHANGED otherThanProducers

PatchProducer(r) ==
    /\ \E id \in ProducerIds, document \in Documents \cup {Omitted} :
          Producer!Patch(r, id, document)
    /\ UNCHANGED otherThanProducers

RequestProducerDelete(r) ==
    /\ \E id \in ProducerIds : Producer!Delete(r, id)
    /\ UNCHANGED otherThanProducers

FindProducerByDocument(r) == Producer!FindByKey(r) /\ UNCHANGED otherThanProducers

InsertProducer(r) == Producer!Insert(r) /\ UNCHANGED otherThanProducers

FindProducer(r) == Producer!FindById(r) /\ UNCHANGED otherThanProducers

UpdateProducer(r) == Producer!Update(r) /\ UNCHANGED otherThanProducers

(* The DELETE cascades to the producer's farms and their planted crops; it *)
(* waits for the transactions that hold one of those farms.                *)
DeleteProducer(r) ==
    \/ Producer!DeleteNothing(r) /\ UNCHANGED otherThanProducers
    \/ /\ Producer!DeleteRow(r)
       /\ CascadeFarms(FarmsOf(producerCall[r].id))
       /\ UNCHANGED <<seasons, crops>>

LoseProducerRequest(r) == Producer!LoseDatabase(r) /\ UNCHANGED otherThanProducers

HandleProducer(r) ==
    \/ FindProducerByDocument(r)
    \/ InsertProducer(r)
    \/ FindProducer(r)
    \/ UpdateProducer(r)
    \/ DeleteProducer(r)

ProducersNext ==
    \E r \in ProducerRequests :
        \/ PostProducer(r)
        \/ PatchProducer(r)
        \/ RequestProducerDelete(r)
        \/ HandleProducer(r)
        \/ LoseProducerRequest(r)

=============================================================================
