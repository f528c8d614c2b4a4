------------------------------- MODULE Images -------------------------------
(***************************************************************************)
(* Photos live in an external store, outside the transactions that store    *)
(* their names.  A photo is uploaded before the item or the offer is saved,  *)
(* removed again when the save fails, and removed later when another one     *)
(* replaces it, when the item is deleted (through the outbox) or when the    *)
(* offer ends (in the background): services/itemService.ts,                  *)
(* services/donationRequestService.ts, jobs/outboxWorker.ts.                 *)
(*                                                                          *)
(* One item is modelled: published, or made of the accepted offer of one     *)
(* donation request.  A photo is the number of its upload, 0 is none.        *)
(***************************************************************************)
EXTENDS Naturals

CONSTANTS
    Editor,          \* requests under way
    Offer,           \* offers for the donation request
    MaxPhotos,       \* bound of the model only: uploads
    MaxImageFaults   \* bound of the model only: failures and crashes

ASSUME ImagesAssumption == MaxPhotos \in Nat /\ MaxImageFaults \in Nat

VARIABLES
    store,       \* the photos in the store
    uploads,     \* how many were uploaded
    listing,     \* the item; `linked' when it answers a request
    offer,       \* the offers
    edit,        \* what every request is doing
    doomed,      \* photos with a cloudinary_delete event in the outbox
    cleaning,    \* offers whose photos are being cleaned up in the background
    strays,      \* history: photos nobody will remove
    mistaken,    \* history: photos saved by a save that was reported as failed
    imageFaults

imagesVars == <<store, uploads, listing, offer, edit, doomed, cleaning, strays, mistaken, imageFaults>>

Photo == 1..MaxPhotos

NoEdit == [pc |-> "idle", kind |-> "edit", saw |-> 0, new |-> 0]

\* "awaited": not published, or the request is active; "open": available or
\* hidden, which its donor may edit; "closed": the request ended without an item.
ImagesInit ==
    /\ store = {} /\ uploads = 0
    /\ listing \in [linked : BOOLEAN, status : {"awaited"}, photo : {0}]
    /\ offer = [o \in Offer |-> [status |-> "none", photo |-> 0]]
    /\ edit = [e \in Editor |-> NoEdit]
    /\ doomed = {} /\ cleaning = {} /\ strays = {} /\ mistaken = {}
    /\ imageFaults = 0

ImageFault == imageFaults < MaxImageFaults /\ imageFaults' = imageFaults + 1

Now(e, pc) == edit' = [edit EXCEPT ![e].pc = pc]

PhotosOf(os) == {offer[o].photo : o \in os}

Awaiting == {o \in Offer : offer[o].status = "pending"}

-----------------------------------------------------------------------------
(* Publishing, editing, offering: upload, then save *)

\* createItemLogic, updateItemLogic and submitOfferLogic up to the upload.
MayUpload(kind) ==
    CASE kind = "publish" -> /\ ~listing.linked /\ listing.status = "awaited"
                             /\ \A e \in Editor : edit[e].pc # "idle" => edit[e].kind # "publish"
      [] kind = "edit"    -> listing.status = "open"
      [] kind = "offer"   -> listing.linked /\ listing.status = "awaited"

Upload(e, kind) ==
    /\ edit[e].pc = "idle" /\ MayUpload(kind) /\ uploads < MaxPhotos
    /\ uploads' = uploads + 1
    /\ store' = store \cup {uploads + 1}
    /\ edit' = [edit EXCEPT ![e] = [pc |-> "save", kind |-> kind, saw |-> listing.photo, new |-> uploads + 1]]
    /\ UNCHANGED <<listing, offer, doomed, cleaning, strays, mistaken, imageFaults>>

\* What the transaction of a save does, when it is not refused.
Saved(e) ==
    \/ /\ edit[e].kind = "publish"
       /\ listing' = [listing EXCEPT !.status = "open", !.photo = edit[e].new]
       /\ UNCHANGED offer
    \/ /\ edit[e].kind = "edit" /\ listing.status = "open"
       /\ listing' = [listing EXCEPT !.photo = edit[e].new]
       /\ UNCHANGED offer
    \/ /\ edit[e].kind = "offer" /\ listing.status = "awaited"
       /\ \E o \in Offer : /\ offer[o].status = "none"
                           /\ offer' = [offer EXCEPT ![o] = [status |-> "pending", photo |-> edit[e].new]]
       /\ UNCHANGED listing

\* Of two edits that overlap, the second names the photo that both replaced, and
\* nobody removes the first one's.
Crossed(e) == IF edit[e].kind = "edit" THEN {listing.photo} \ {edit[e].saw} ELSE {}

Save(e) ==
    /\ edit[e].pc = "save" /\ Saved(e)
    /\ Now(e, IF edit[e].kind = "edit" THEN "discard old" ELSE "idle")
    /\ strays' = strays \cup Crossed(e)
    /\ UNCHANGED <<store, uploads, doomed, cleaning, mistaken, imageFaults>>

\* Saved, and then the connection is lost, or the item cannot be populated: the
\* handler takes it for a failure.
SaveReportsFailure(e) ==
    /\ edit[e].pc = "save" /\ Saved(e) /\ ImageFault
    /\ Now(e, "discard new")
    /\ strays' = strays \cup Crossed(e) \cup (IF edit[e].kind = "edit" THEN {edit[e].saw} ELSE {})
    /\ mistaken' = mistaken \cup {edit[e].new}
    /\ UNCHANGED <<store, uploads, doomed, cleaning>>

\* A limit, a hub that was closed, or the item or the request moved on.
SaveRefused(e) ==
    /\ edit[e].pc = "save"
    /\ Now(e, "discard new")
    /\ UNCHANGED <<store, uploads, listing, offer, doomed, cleaning, strays, mistaken, imageFaults>>

DiscardNew(e) ==
    /\ edit[e].pc = "discard new"
    /\ store' = store \ {edit[e].new} /\ Now(e, "idle")
    /\ UNCHANGED <<uploads, listing, offer, doomed, cleaning, strays, mistaken, imageFaults>>

\* Mutant: the photo of the item as it is now, not as it was read.
OutdatedNow(e) == listing.photo

Outdated(e) == edit[e].saw

DiscardOld(e) ==
    /\ edit[e].pc = "discard old"
    /\ store' = store \ {Outdated(e)} /\ Now(e, "idle")
    /\ UNCHANGED <<uploads, listing, offer, doomed, cleaning, strays, mistaken, imageFaults>>

\* The process dies, or the store refuses to remove a photo, which is only logged.
Abandon(e) ==
    /\ edit[e].pc \in {"save", "discard new", "discard old", "delete"} /\ ImageFault
    /\ Now(e, "idle")
    /\ strays' = strays \cup (CASE edit[e].pc \in {"save", "discard new"} -> {edit[e].new}
                                [] edit[e].pc = "discard old" -> {edit[e].saw}
                                [] edit[e].pc = "delete" -> {})
    /\ UNCHANGED <<store, uploads, listing, offer, doomed, cleaning, mistaken>>

-----------------------------------------------------------------------------
(* The item is booked, delivered, deleted *)

BookItem ==
    /\ listing.status = "open" /\ ~listing.linked
    /\ listing' = [listing EXCEPT !.status = "booked"]
    /\ UNCHANGED <<store, uploads, offer, edit, doomed, cleaning, strays, mistaken, imageFaults>>

\* Cancelled or expired; a ban that undoes an exchange hides its item and cancels
\* the accepted offer, which keeps naming the photo that is the item's.
ReleaseItem ==
    /\ listing.status = "booked"
    /\ listing' = [listing EXCEPT !.status = "open"]
    /\ offer' = [o \in Offer |-> IF offer[o].status = "accepted"
                                 THEN [offer[o] EXCEPT !.status = "undone"] ELSE offer[o]]
    /\ UNCHANGED <<store, uploads, edit, doomed, cleaning, strays, mistaken, imageFaults>>

DeliverItem ==
    /\ listing.status = "booked"
    /\ listing' = [listing EXCEPT !.status = "delivered"]
    /\ UNCHANGED <<store, uploads, offer, edit, doomed, cleaning, strays, mistaken, imageFaults>>

\* deleteItemLogic reads the item, and its transaction enqueues the removal of the
\* photo that was read.  Deleting again enqueues again.
OwnerReads(e) ==
    /\ edit[e].pc = "idle" /\ ~listing.linked /\ listing.status \in {"open", "booked", "deleted"}
    /\ edit' = [edit EXCEPT ![e] = [pc |-> "delete", kind |-> "edit", saw |-> listing.photo, new |-> 0]]
    /\ UNCHANGED <<store, uploads, listing, offer, doomed, cleaning, strays, mistaken, imageFaults>>

OwnerDeletes(e) ==
    /\ edit[e].pc = "delete"
    /\ Now(e, "idle")
    /\ IF listing.status \in {"open", "booked", "deleted"}
       THEN /\ listing' = [listing EXCEPT !.status = "deleted"]
            /\ doomed' = doomed \cup ({edit[e].saw} \ {0})
            /\ strays' = strays \cup Crossed(e)
       ELSE UNCHANGED <<listing, doomed, strays>>
    /\ UNCHANGED <<store, uploads, offer, cleaning, mistaken, imageFaults>>

\* The moderator's deleteItem reads the item in its transaction.
ModeratorDeletes ==
    /\ listing.status \in {"open", "booked", "delivered", "deleted"}
    /\ listing' = [listing EXCEPT !.status = "deleted"]
    /\ doomed' = doomed \cup ({listing.photo} \ {0})
    /\ UNCHANGED <<store, uploads, offer, edit, cleaning, strays, mistaken, imageFaults>>

\* The cloudinary_delete event: destroy, then clear the name; a retry begins again.
Destroy(p) ==
    /\ p \in doomed \cap store
    /\ store' = store \ {p}
    /\ UNCHANGED <<uploads, listing, offer, edit, doomed, cleaning, strays, mistaken, imageFaults>>

ClearItem(p) ==
    /\ p \in doomed \ store
    /\ doomed' = doomed \ {p}
    /\ listing' = IF listing.photo = p THEN [listing EXCEPT !.photo = 0] ELSE listing
    /\ UNCHANGED <<store, uploads, offer, edit, cleaning, strays, mistaken, imageFaults>>

\* The event used up its attempts.
GiveUp(p) ==
    /\ p \in doomed /\ ImageFault
    /\ doomed' = doomed \ {p}
    /\ strays' = strays \cup {p}
    /\ UNCHANGED <<store, uploads, listing, offer, edit, cleaning, mistaken>>

-----------------------------------------------------------------------------
(* Offers end *)

Ending(os) == [o \in Offer |-> IF o \in os THEN [offer[o] EXCEPT !.status = "ended"] ELSE offer[o]]

\* rejectOfferLogic, withdrawOfferLogic.
EndOffer(o) ==
    /\ listing.status = "awaited" /\ o \in Awaiting
    /\ offer' = Ending({o}) /\ cleaning' = cleaning \cup {o}
    /\ UNCHANGED <<store, uploads, listing, edit, doomed, strays, mistaken, imageFaults>>

\* cancelRequestLogic, expireSingleRequest.
CloseRequest ==
    /\ listing.linked /\ listing.status = "awaited"
    /\ listing' = [listing EXCEPT !.status = "closed"]
    /\ offer' = Ending(Awaiting) /\ cleaning' = cleaning \cup Awaiting
    /\ UNCHANGED <<store, uploads, edit, doomed, strays, mistaken, imageFaults>>

\* acceptOfferLogic: the item takes the photo of the offer over.
AcceptOffer(o) ==
    /\ listing.status = "awaited" /\ o \in Awaiting
    /\ listing' = [listing EXCEPT !.status = "booked", !.photo = offer[o].photo]
    /\ offer' = [Ending(Awaiting \ {o}) EXCEPT ![o].status = "accepted"]
    /\ cleaning' = cleaning \cup (Awaiting \ {o})
    /\ UNCHANGED <<store, uploads, edit, doomed, strays, mistaken, imageFaults>>

\* cleanupOfferImages: destroy, then clear the name.
Wipe(o) ==
    /\ o \in cleaning /\ offer[o].photo \in store
    /\ store' = store \ {offer[o].photo}
    /\ UNCHANGED <<uploads, listing, offer, edit, doomed, cleaning, strays, mistaken, imageFaults>>

ClearOffer(o) ==
    /\ o \in cleaning /\ offer[o].photo \notin store
    /\ offer' = [offer EXCEPT ![o].photo = 0]
    /\ cleaning' = cleaning \ {o}
    /\ UNCHANGED <<store, uploads, listing, edit, doomed, strays, mistaken, imageFaults>>

\* The process dies before its background task, or the store refuses.
CleanupLost(o) ==
    /\ o \in cleaning /\ ImageFault
    /\ cleaning' = cleaning \ {o}
    /\ strays' = strays \cup {offer[o].photo}
    /\ UNCHANGED <<store, uploads, listing, offer, edit, doomed, mistaken>>

ImagesNext ==
    \/ \E e \in Editor :
         \/ \E kind \in {"publish", "edit", "offer"} : Upload(e, kind)
         \/ Save(e) \/ SaveReportsFailure(e) \/ SaveRefused(e)
         \/ DiscardNew(e) \/ DiscardOld(e) \/ Abandon(e) \/ OwnerReads(e) \/ OwnerDeletes(e)
    \/ BookItem \/ ReleaseItem \/ DeliverItem \/ ModeratorDeletes
    \/ \E p \in Photo : Destroy(p) \/ ClearItem(p) \/ GiveUp(p)
    \/ \E o \in Offer :
         EndOffer(o) \/ AcceptOffer(o) \/ Wipe(o) \/ ClearOffer(o) \/ CleanupLost(o)
    \/ CloseRequest

ImagesSpec == ImagesInit /\ [][ImagesNext]_imagesVars

-----------------------------------------------------------------------------
(* Properties *)

ImagesTypeOK ==
    /\ uploads \in 0..MaxPhotos /\ store \subseteq 1..uploads
    /\ listing \in [linked : BOOLEAN, photo : 0..uploads,
                    status : {"awaited", "open", "booked", "delivered", "deleted", "closed"}]
    /\ offer \in [Offer -> [status : {"none", "pending", "accepted", "undone", "ended"}, photo : 0..uploads]]
    /\ edit \in [Editor -> [pc : {"idle", "save", "discard new", "discard old", "delete"},
                            kind : {"publish", "edit", "offer"}, saw : 0..uploads, new : 0..uploads]]
    /\ doomed \cup strays \cup mistaken \subseteq 0..uploads /\ cleaning \subseteq Offer

\* The photos of the item and of the offers that still are to be had.
Current ==
    PhotosOf(Awaiting) \cup
    (IF listing.status \in {"open", "booked", "delivered"} THEN {listing.photo} ELSE {})

\* The photos that somebody is shown: the requester sees the offers of every status
\* (getOffersLogic), and a deleted item is still seen in its conversations.
Shown == ({listing.photo} \cup PhotosOf(Offer)) \ {0}

\* Photos an accepted offer passed on to an item that was deleted since, or given
\* another photo: removing the item's takes the offer's away.
LeftBehind ==
    PhotosOf({o \in Offer : /\ offer[o].status \in {"accepted", "undone"}
                            /\ listing.status = "deleted" \/ listing.photo # offer[o].photo})

\* The current photos are in the store, unless a handler removed one because it was
\* told that a save had failed which had not.
CurrentIsStored == Current \subseteq store \cup mistaken

\* So is every other that is shown, unless its removal is under way, or failed before
\* its name was cleared, or went with that of an item.
ShownIsStored ==
    Shown \subseteq store \cup mistaken \cup doomed \cup PhotosOf(cleaning) \cup strays \cup LeftBehind

\* What is in the store is current or going to be removed, unless a removal failed or
\* two changes of the item overlapped.
StoredIsCurrent ==
    store \subseteq Current \cup strays \cup doomed \cup PhotosOf(cleaning)
        \cup {edit[e].new : e \in {x \in Editor : edit[x].pc \in {"save", "discard new"}}}
        \cup {edit[e].saw : e \in {x \in Editor : edit[x].pc = "discard old"}}

\* Photos and the documents that name them agree, although no transaction covers
\* both: edits, deletions, ends of offers, failed saves and late clean-ups remove no
\* photo of an item or an offer that is still to be had, leave no name without its
\* photo elsewhere and no photo behind, but for the failures named above and for the
\* accepted offer, which the removal of its item's photo does not know of
\* (createItemLogic, updateItemLogic, cleanupOfferImages, cloudinary_delete).
ImagesSound == CurrentIsStored /\ ShownIsStored /\ StoredIsCurrent
=============================================================================
