------------------------------ MODULE Catalogue ------------------------------
(***************************************************************************)
(* The catalogue of a creator (modules/profiles and modules/content): the  *)
(* profile and its settings, the offers, and the content that is for sale. *)
(*                                                                         *)
(* Content for sale has an unlock offer, which is what a buyer orders;     *)
(* saving the content writes both in one transaction, and the row lock on  *)
(* the content makes two of those follow one another, so here a save is    *)
(* one step.  Settings and offers are read first and written later, whole: *)
(* the settings that a request writes are those it read and its changes.   *)
(*                                                                         *)
(* Settings are whether the profile is public (publicVisible) and one more *)
(* that stands for the others.  Not modelled: offers that are no content's *)
(* (nothing follows them), titles and descriptions, files and who may see  *)
(* them (MediaAccess), and what becomes of an order (DealLifecycle).       *)
(***************************************************************************)
EXTENDS Naturals

CONSTANTS
    Sellers,           \* users who may have a profile
    Handles,           \* handles of profiles
    Items,             \* ids of content
    CreatorOf,         \* the creator of each
    Prices,            \* prices above zero
    CatalogueRequests  \* requests that may be handled at once (a bound)

ASSUME CatalogueAssumption ==
    /\ CreatorOf \in [Items -> Sellers]
    /\ Prices \subseteq Nat \ {0}
    /\ "none" \notin Handles \cup Items

VARIABLES
    profile,  \* the row of profiles of each creator
    item,     \* the row of content_items of each id
    offer,    \* the unlock offer of each item
    repriced, \* items whose offer was edited since their last save
    editing,  \* the requests under way
    stale     \* requests whose profile was written after they read it

catalogueVars == <<profile, item, offer, repriced, editing, stale>>
-----------------------------------------------------------------------------
NoProfile == [handle |-> "none"]
NoItem    == [status |-> "none"]
NoOffer   == [status |-> "none"]
NoEdit    == [phase |-> "idle"]

Settings == [visible : BOOLEAN, other : {"as before", "changed"}]

ContentRow ==
    {i \in [status : {"DRAFT", "PUBLISHED", "SCHEDULED"}, price : Prices \cup {0},
            visibility : {"PUBLIC", "PAID", "MEMBERS"}] :
         /\ i.visibility = "PAID" <=> i.price # 0
         /\ i.visibility = "MEMBERS" => i.status = "DRAFT"}

OfferRow == [status : {"ACTIVE", "PAUSED", "ARCHIVED"}, price : Prices \cup {0}]

Visible(c) == profile[c] # NoProfile /\ profile[c].settings.visible

(* Publishing content for sale makes sure of an offer that unlocks it. *)
ForSale(row) == row.visibility = "PAID" /\ row.status # "DRAFT"

CatalogueInit ==
    /\ profile  = [c \in Sellers |-> NoProfile]
    /\ item     = [i \in Items |-> NoItem]
    /\ offer    = [i \in Items |-> NoOffer]
    /\ repriced = {}
    /\ editing  = [q \in CatalogueRequests |-> NoEdit]
    /\ stale    = {}

Edit(q, edit) ==
    /\ editing[q] = NoEdit
    /\ editing' = [editing EXCEPT ![q] = edit]
    /\ stale' = stale \ {q}
    /\ UNCHANGED <<profile, item, offer, repriced>>

EndEdit(q) == editing' = [editing EXCEPT ![q] = NoEdit]

HasHandle(h) == \E c \in Sellers : profile[c].handle = h

(* CreateProfileUseCase: neither the user nor the handle has a profile ... *)
AskForProfile(q, c, h) ==
    /\ profile[c] = NoProfile /\ ~ HasHandle(h)
    /\ Edit(q, [phase |-> "creating", creator |-> c, handle |-> h])

(* ... and still none: both are unique in the table. *)
CreateProfile(q) ==
    /\ editing[q].phase = "creating"
    /\ LET c == editing[q].creator
           h == editing[q].handle
       IN  profile' = IF profile[c] # NoProfile \/ HasHandle(h) THEN profile
                      ELSE [profile EXCEPT ![c] =
                                [handle |-> h, settings |-> [visible |-> TRUE, other |-> "as before"]]]
    /\ EndEdit(q)
    /\ UNCHANGED <<item, offer, repriced, stale>>

(* UpdateProfileUseCase reads the profile it will change ... *)
ReadProfile(q, c, field) ==
    /\ profile[c] # NoProfile
    /\ Edit(q, [phase |-> "updating", creator |-> c, field |-> field,
                settings |-> profile[c].settings])

(* Mutant: what is not sent goes back to what it is for a new profile. *)
Replaced(settings, field) ==
    [visible |-> field # "hide", other |-> IF field = "other" THEN "changed" ELSE "as before"]

(* The settings as they were read, with the one that is sent, ... *)
MergedSettings(settings, field) ==
    CASE field = "hide"  -> [settings EXCEPT !.visible = FALSE]
      [] field = "show"  -> [settings EXCEPT !.visible = TRUE]
      [] field = "other" -> [settings EXCEPT !.other = "changed"]

(* ... and writes it over what others have written meanwhile. *)
UpdateProfile(q) ==
    /\ editing[q].phase = "updating"
    /\ LET c == editing[q].creator
       IN  /\ profile' = [profile EXCEPT ![c].settings =
                              MergedSettings(editing[q].settings, editing[q].field)]
           /\ stale' = (stale \cup {p \in CatalogueRequests :
                                        /\ editing[p].phase = "updating"
                                        /\ editing[p].creator = c}) \ {q}
    /\ EndEdit(q)
    /\ UNCHANGED <<item, offer, repriced>>

(* Mutant: the offer that there is keeps its price. *)
KeepPrice(i, row) ==
    offer' = IF ~ ForSale(row) THEN offer
             ELSE [offer EXCEPT ![i] =
                       [status |-> "ACTIVE", price |-> IF @ = NoOffer THEN row.price ELSE @.price]]

(* ensureUnlockOffer: created, or given the price and made ACTIVE again. *)
EnsureUnlockOffer(i, row) ==
    offer' = IF ~ ForSale(row) THEN offer
             ELSE [offer EXCEPT ![i] = [status |-> "ACTIVE", price |-> row.price]]

(* SaveContentUseCase, which leaves the offer of content that is no longer for *)
(* sale as it is.                                                              *)
SaveContent(i, row) ==
    /\ profile[CreatorOf[i]] # NoProfile
    /\ item' = [item EXCEPT ![i] = row]
    /\ EnsureUnlockOffer(i, row)
    /\ repriced' = IF ForSale(row) THEN repriced \ {i} ELSE repriced
    /\ UNCHANGED <<profile, editing, stale>>

(* UpdateOfferUseCase: any offer of theirs that is not archived, this one too. *)
ReadOffer(q, i, row) ==
    /\ offer[i].status \in {"ACTIVE", "PAUSED"}
    /\ Edit(q, [phase |-> "repricing", item |-> i, row |-> row])

UpdateOffer(q) ==
    /\ editing[q].phase = "repricing"
    /\ offer' = [offer EXCEPT ![editing[q].item] = editing[q].row]
    /\ repriced' = repriced \cup {editing[q].item}
    /\ EndEdit(q)
    /\ UNCHANGED <<profile, item, stale>>

(* The transaction fails, or its process dies. *)
DropEdit(q) ==
    /\ editing[q] # NoEdit
    /\ EndEdit(q)
    /\ UNCHANGED <<profile, item, offer, repriced, stale>>

CatalogueNext ==
    \/ \E q \in CatalogueRequests, c \in Sellers, h \in Handles : AskForProfile(q, c, h)
    \/ \E q \in CatalogueRequests, c \in Sellers, s \in {"hide", "show", "other"} :
           ReadProfile(q, c, s)
    \/ \E q \in CatalogueRequests, i \in Items, row \in OfferRow : ReadOffer(q, i, row)
    \/ \E q \in CatalogueRequests :
           CreateProfile(q) \/ UpdateProfile(q) \/ UpdateOffer(q) \/ DropEdit(q)
    \/ \E i \in Items, row \in ContentRow : SaveContent(i, row)

CatalogueSpec == CatalogueInit /\ [][CatalogueNext]_catalogueVars
-----------------------------------------------------------------------------
Edits ==
    [phase : {"creating"}, creator : Sellers, handle : Handles]
        \cup [phase : {"updating"}, creator : Sellers, field : {"hide", "show", "other"},
              settings : Settings]
        \cup [phase : {"repricing"}, item : Items, row : OfferRow]

CatalogueTypeOK ==
    /\ profile \in [Sellers -> [handle : Handles, settings : Settings] \cup {NoProfile}]
    /\ \A c, d \in Sellers : profile[c].handle = profile[d].handle /\ profile[c] # NoProfile
                                => c = d
    /\ item \in [Items -> ContentRow \cup {NoItem}]
    /\ offer \in [Items -> OfferRow \cup {NoOffer}]
    /\ repriced \subseteq Items
    /\ editing \in [CatalogueRequests -> Edits \cup {NoEdit}]
    /\ stale \subseteq CatalogueRequests

(* What unlocks content costs what the content says it does, however often it  *)
(* is saved (save-content.use-case.ts:93: "o preço segue o da publicação"),    *)
(* unless the offer itself was edited since.                                   *)
PriceFollowsContent ==
    \A i \in Items : item[i] # NoItem /\ ForSale(item[i]) /\ i \notin repriced =>
        offer[i] = [status |-> "ACTIVE", price |-> item[i].price]

(* A creator who has hidden the profile is not shown again by a change of      *)
(* something else, except by one that had read the profile before it was       *)
(* hidden, and writes all of it back.                                          *)
HiddenUntilShown ==
    [][\A c \in Sellers : \A q \in CatalogueRequests :
           /\ profile[c] # NoProfile /\ profile' # profile
           /\ editing[q].phase = "updating" /\ editing'[q] = NoEdit
           /\ editing[q].creator = c /\ editing[q].field # "show" /\ q \notin stale
           => (Visible(c)' => Visible(c))]_catalogueVars

(* save-content.use-case.ts:94: "não há dois sítios onde o mudar".  There are: *)
(* the list of the creator's offers has the unlock offers in it.               *)
OnePlaceForThePrice ==
    \A i \in Items : item[i] # NoItem /\ ForSale(item[i]) => offer[i].price = item[i].price
=============================================================================
