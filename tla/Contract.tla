------------------------------- MODULE Contract -----------------------------
(***************************************************************************)
(* The error contract the README states ("Contrato de erros consistente"), *)
(* as an action property of Api: it constrains the step that answers a     *)
(* request.                                                                *)
(***************************************************************************)
EXTENDS Api

(* README.md:111: a duplicated document, year or name is a 409.  A create  *)
(* may run into a key that was taken since its look-up, and a PATCH looks  *)
(* for no duplicate at all.                                                *)
DuplicateKeyIs409 ==
    [][/\ \A r \in ProducerRequests :
             /\ Producer!RunsIntoKey(r) /\ Refused(producerCall[r], producerCall'[r])
             => producerCall'[r].status = 409
       /\ \A r \in SeasonRequests :
             /\ Season!RunsIntoKey(r) /\ Refused(seasonCall[r], seasonCall'[r])
             => seasonCall'[r].status = 409
       /\ \A r \in CropRequests :
             /\ Crop!RunsIntoKey(r) /\ Refused(cropCall[r], cropCall'[r])
             => cropCall'[r].status = 409]_vars

=============================================================================
