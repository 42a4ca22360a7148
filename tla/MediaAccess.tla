----------------------------- MODULE MediaAccess -----------------------------
(***************************************************************************)
(* Private files (modules/content): how one is stored, who is given a link *)
(* to it, and what the link still serves later.                            *)
(*                                                                         *)
(* An upload writes the file and then its row; if the row fails the file   *)
(* is removed, and if the process dies in between the file is left behind. *)
(* A page of content carries a signed link for each file its reader may    *)
(* see, good for five minutes, and an upload answers with one that is good *)
(* for its creator alone.  Much may change in five minutes, so reading the *)
(* file through the link asks everything again, in five reads that are not *)
(* in one transaction: what changes between two of them is seen by some.   *)
(*                                                                         *)
(* There is one creator, and one request that reads is followed at a time: *)
(* a reading writes nothing that another one could see.  A reader without  *)
(* a session is "anybody".  Not modelled: the bytes, their validation, the *)
(* signature of a link, content that is deleted and grants that end (no    *)
(* code does either), and scheduled content, published at its time.        *)
(***************************************************************************)
EXTENDS Naturals, FiniteSets

CONSTANTS
    Media,          \* ids of files
    Contents,       \* ids of content
    MediaOwner,        \* the creator
    Readers,        \* the other users
    Uploads,        \* uploads that may run at once (a bound)
    LinkLife,       \* how long a link is good for: five minutes
    MaxClock,       \* the last moment something happens (a bound)
    MaxLinks        \* links given (a bound)

ASSUME MediaAccessAssumption ==
    /\ MediaOwner \notin Readers /\ "anybody" \notin Readers \cup {MediaOwner}
    /\ "none" \notin Contents
    /\ LinkLife \in Nat /\ MaxClock \in Nat /\ MaxLinks \in Nat

VARIABLES
    clock,     \* the time it is
    files,     \* files in the storage
    media,     \* rows of media
    upload,    \* the file each upload has written, if it has
    content,   \* rows of content_items
    public,    \* whether the profile is published and visible
    grant,     \* rows of content_grants, besides the creator's
    suspended, \* users whose account is not active
    link,      \* the links given so far
    reading    \* the request that reads a file, and what was against it all along

mediaVars == <<clock, files, media, upload, content, public, grant, suspended, link, reading>>
-----------------------------------------------------------------------------
NoUpload  == [phase |-> "idle"]
NoContent == [visibility |-> "none", status |-> "DRAFT", media |-> {}, preview |-> {}]
NoReading == [phase |-> "idle"]

ContentItem ==
    {i \in [visibility : {"PUBLIC", "PAID"}, status : {"DRAFT", "PUBLISHED"},
            media : SUBSET Media, preview : SUBSET Media] :
         /\ i.preview \subseteq i.media
         /\ i.status = "PUBLISHED" => i.media # {}}

Links == [media : Media, reader : Readers \cup {MediaOwner, "anybody"},
          content : Contents \cup {"none"}, until : Nat]

(* The actor of a request: nobody in particular if the account is not active. *)
Actor(reader) == IF reader \in suspended THEN "anybody" ELSE reader

HasGrant(c, reader) == reader = MediaOwner \/ <<c, reader>> \in grant

(* The creator sees drafts; others see what is published on a public profile. *)
MayOpen(c, reader) ==
    /\ content[c] # NoContent
    /\ reader = MediaOwner \/ (public /\ content[c].status = "PUBLISHED")

(* ContentAccess: all the files for who has a grant, or else the previews. *)
MaySee(c, reader) ==
    IF content[c].visibility = "PUBLIC" \/ HasGrant(c, reader)
    THEN content[c].media ELSE content[c].preview

World == [now |-> clock, suspended |-> suspended, public |-> public, content |-> content,
          grant |-> grant]

(* What speaks against serving a file through a link: the link is over, the  *)
(* account is not active, the profile is hidden, the file is not of that     *)
(* content or it is not published, it is to be paid for and was not.  The    *)
(* creator is not stopped by what stops others, and the link of an upload    *)
(* has no content to ask for.                                                *)
AccountReasons == {"link", "account"}
ContentReasons == {"profile", "content", "payment"}
Reasons        == AccountReasons \cup ContentReasons

Against(l, world) ==
    LET row     == world.content[l.content]
        isOwner == l.reader = MediaOwner
        isShown == l.media \in row.media /\ (isOwner \/ row.status = "PUBLISHED")
        isFree  == row.visibility = "PUBLIC" \/ l.media \in row.preview
        isPaid  == isOwner \/ <<l.content, l.reader>> \in world.grant
    IN  {r \in IF l.content = "none" THEN AccountReasons ELSE Reasons :
            CASE r = "link"    -> world.now >= l.until
              [] r = "account" -> l.reader \in world.suspended
              [] r = "profile" -> ~ isOwner /\ ~ world.public
              [] r = "content" -> ~ isShown
              [] r = "payment" -> ~ isPaid /\ ~ (isShown /\ isFree)}

IsReading == reading.phase \notin {"idle", "served"}

(* Kept for the property only: what still speaks against the reading after   *)
(* the world has changed.                                                    *)
WithdrawalsThatLast ==
    reading' = IF IsReading
               THEN [reading EXCEPT !.withdrawn = @ \cap Against(reading.link, World')]
               ELSE reading

MediaInit ==
    /\ clock     = 0
    /\ files     = {}
    /\ media     = {}
    /\ upload    = [q \in Uploads |-> NoUpload]
    /\ content   = [c \in Contents |-> NoContent]
    /\ public    = TRUE
    /\ grant     = {}
    /\ suspended = {}
    /\ link      = {}
    /\ reading   = NoReading

ClockTicks ==
    /\ clock < MaxClock
    /\ clock' = clock + 1
    /\ UNCHANGED <<files, media, upload, content, public, grant, suspended, link, reading>>

(* Mutant: the row is written first. *)
WriteRowFirst(q, m) ==
    /\ upload[q] = NoUpload /\ m \notin files \cup media /\ MediaOwner \notin suspended
    /\ media' = media \cup {m}
    /\ upload' = [upload EXCEPT ![q] = [phase |-> "written", media |-> m, since |-> clock]]
    /\ UNCHANGED <<clock, files, content, public, grant, suspended, link, reading>>

(* UploadMediaUseCase, of an active account, writes the file under a new key ... *)
WriteFile(q, m) ==
    /\ upload[q] = NoUpload /\ m \notin files \cup media /\ MediaOwner \notin suspended
    /\ files' = files \cup {m}
    /\ upload' = [upload EXCEPT ![q] = [phase |-> "written", media |-> m, since |-> clock]]
    /\ UNCHANGED <<clock, media, content, public, grant, suspended, link, reading>>

(* ... and then its row, and answers with a link for its creator, ... *)
CreateMedia(q) ==
    /\ upload[q].phase = "written"
    /\ media' = media \cup {upload[q].media}
    /\ upload' = [upload EXCEPT ![q] = NoUpload]
    /\ link' = IF Cardinality(link) = MaxLinks THEN link
               ELSE link \cup {[media |-> upload[q].media, reader |-> MediaOwner,
                                content |-> "none", until |-> upload[q].since + LinkLife]}
    /\ UNCHANGED <<clock, files, content, public, grant, suspended, reading>>

(* ... or removes the file because the row failed, ... *)
RemoveFile(q) ==
    /\ upload[q].phase = "written"
    /\ files' = files \ {upload[q].media}
    /\ upload' = [upload EXCEPT ![q] = NoUpload]
    /\ UNCHANGED <<clock, media, content, public, grant, suspended, link, reading>>

(* ... or dies before it does either. *)
DieUploading(q) ==
    /\ upload[q].phase = "written"
    /\ upload' = [upload EXCEPT ![q] = NoUpload]
    /\ UNCHANGED <<clock, files, media, content, public, grant, suspended, link, reading>>

(* SaveContentUseCase takes files that have a row. *)
PutContent(c, row) ==
    /\ row.media \subseteq media
    /\ content' = [content EXCEPT ![c] = row]
    /\ UNCHANGED <<clock, files, media, upload, public, grant, suspended, link>>
    /\ WithdrawalsThatLast

(* The profile is hidden or shown, an account suspended or reinstated, content *)
(* bought: nothing takes a grant away.                                         *)
ChangeWorld ==
    /\ \/ public' = ~ public /\ UNCHANGED <<grant, suspended>>
       \/ \E u \in Readers \cup {MediaOwner} :
                             /\ suspended' = IF u \in suspended THEN suspended \ {u}
                                             ELSE suspended \cup {u}
                             /\ UNCHANGED <<public, grant>>
       \/ \E c \in Contents, u \in Readers :
              /\ content[c] # NoContent
              /\ grant' = grant \cup {<<c, u>>} /\ UNCHANGED <<public, suspended>>
    /\ UNCHANGED <<clock, files, media, upload, content, link>>
    /\ WithdrawalsThatLast

(* GetContentUseCase: a link to a file, for this reader and this content; what *)
(* it was given for is asked again by whoever follows it.                      *)
GiveLink(c, reader, m) ==
    /\ Cardinality(link) < MaxLinks
    /\ LET actor == Actor(reader)
       IN  /\ MayOpen(c, actor)
           /\ m \in MaySee(c, actor)
           /\ link' = link \cup {[media |-> m, reader |-> actor, content |-> c,
                                  until |-> clock + LinkLife]}
    /\ UNCHANGED <<clock, files, media, upload, content, public, grant, suspended, reading>>

(* ReadMediaUseCase reads the link and the row of the file, which nothing      *)
(* removes, ...                                                                *)
BeginReading(l) ==
    /\ ~ IsReading
    /\ l \in link /\ clock < l.until /\ l.media \in media
    /\ reading' = [phase |-> "account", link |-> l, item |-> NoContent,
                   withdrawn |-> Against(l, World)]

(* A check lets the reading go on, or it ends with "not found". *)
GoOnIf(ok, phase) ==
    reading' = IF ok THEN [reading EXCEPT !.phase = phase] ELSE NoReading

(* Mutant: the account is the one of the link. *)
TrustAccount ==
    /\ reading.phase = "account"
    /\ IF reading.link.content = "none"
       THEN GoOnIf(reading.link.reader = MediaOwner, "file")
       ELSE GoOnIf(TRUE, "item")

(* ... the account that it was given to, ... *)
AskAccount ==
    /\ reading.phase = "account"
    /\ LET isActive == reading.link.reader \notin suspended
       IN  IF reading.link.content = "none"
           THEN GoOnIf(isActive /\ reading.link.reader = MediaOwner, "file")
           ELSE GoOnIf(isActive, "item")

(* ... the content, ... *)
AskContent ==
    /\ reading.phase = "item"
    /\ reading' = [reading EXCEPT !.phase = "profile", !.item = content[reading.link.content]]

(* ... the profile, ... *)
AskProfile ==
    /\ reading.phase = "profile"
    /\ LET l    == reading.link
           item == reading.item
       IN  GoOnIf(/\ l.media \in item.media
                  /\ l.reader = MediaOwner \/ (public /\ item.status = "PUBLISHED"),
                  IF item.visibility = "PUBLIC" THEN "file" ELSE "grant")

(* ... the grant, ... *)
AskGrant ==
    /\ reading.phase = "grant"
    /\ LET l == reading.link
       IN  GoOnIf(HasGrant(l.content, l.reader) \/ l.media \in reading.item.preview, "file")

(* ... and the file, which is then served. *)
ServeFile ==
    /\ reading.phase = "file"
    /\ GoOnIf(reading.link.media \in files, "served")

ReadMedia ==
    /\ \/ \E l \in link : BeginReading(l)
       \/ AskAccount \/ AskContent \/ AskProfile \/ AskGrant \/ ServeFile
    /\ UNCHANGED <<clock, files, media, upload, content, public, grant, suspended, link>>

MediaNext ==
    \/ ClockTicks
    \/ \E q \in Uploads, m \in Media : WriteFile(q, m)
    \/ \E q \in Uploads : CreateMedia(q) \/ RemoveFile(q) \/ DieUploading(q)
    \/ \E c \in Contents, row \in ContentItem : PutContent(c, row)
    \/ ChangeWorld
    \/ \E c \in Contents, u \in Readers \cup {MediaOwner, "anybody"}, m \in Media : GiveLink(c, u, m)
    \/ ReadMedia

MediaSpec == MediaInit /\ [][MediaNext]_mediaVars
-----------------------------------------------------------------------------
MediaTypeOK ==
    /\ clock \in 0 .. MaxClock
    /\ files \subseteq Media /\ media \subseteq Media
    /\ upload \in [Uploads -> [phase : {"written"}, media : Media, since : 0 .. clock]
                              \cup {NoUpload}]
    /\ content \in [Contents -> ContentItem \cup {NoContent}]
    /\ public \in BOOLEAN
    /\ grant \subseteq Contents \X Readers
    /\ suspended \subseteq Readers \cup {MediaOwner}
    /\ link \subseteq Links
    /\ reading \in [phase : {"account", "item", "profile", "grant", "file", "served"},
                    link : link, item : ContentItem \cup {NoContent},
                    withdrawn : SUBSET Reasons] \cup {NoReading}

(* Whichever step an upload fails at, what a creator can publish can be read:  *)
(* a row has its file, though a file may be left without a row.                *)
EveryMediaHasItsFile ==
    /\ media \subseteq files
    /\ \A c \in Contents : content[c].media \subseteq media

(* However the world changes while a link is kept and then followed, nothing   *)
(* that was withdrawn before the request began, and stayed so, is served: not  *)
(* through a link that is over, nor to a suspended account, nor of a hidden    *)
(* profile, nor of content that was taken back, nor a file that is to be paid  *)
(* for by now (RN-024, ReadMediaUseCase).  Each reason for a refusal was       *)
(* absent at some moment of the reading, not all of them at the same moment:   *)
(* what is withdrawn while the request runs may be served once more.           *)
WithdrawnIsNotServed == reading.phase = "served" => reading.withdrawn = {}
=============================================================================
