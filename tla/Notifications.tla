--------------------------- MODULE Notifications ---------------------------
(***************************************************************************)
(* One person's notifications: activity rows with their dedup keys and     *)
(* preferences, announcements with their receipts, and the sockets that    *)
(* are pushed a summary after every change.                                *)
(*                                                                         *)
(* Every request reads, writes and then reads the summary it pushes, in    *)
(* statements of their own.  An activity row is created inside a           *)
(* transaction of its caller (a submission, a payment, a job), and what it *)
(* inserted is seen by others when that commits.  A summary is what is     *)
(* unread; titles, priorities and pages are left out.                      *)
(***************************************************************************)
EXTENDS Integers, FiniteSets

CONSTANTS
    Clients,        \* requests and jobs that may overlap
    Categories,     \* NotificationCategory
    Occasions,      \* what may happen in a category
    Announcements,  \* NotificationAnnouncement ids
    Sockets         \* the person's sockets, all on one process

ASSUME SocketsAssumption == Clients \cap Sockets = {}

Readers == Clients \cup Sockets   \* who reads a summary: a request, or a socket's handshake
Keys == Categories \X Occasions   \* dedup keys

VARIABLES
    person,       \* whether premium, verified and of the institution announcements name
    preferences,  \* User.notificationPreferences
    inbox,        \* UserNotification rows by dedup key
    notices,      \* NotificationAnnouncement rows
    receipts,     \* NotificationAnnouncementReceipt rows
    client,       \* the requests and the handshakes in flight
    socket,       \* the sockets, with the last summary each was sent, and whether it was stale
    hub,          \* NotificationsRealtimeHub: the sockets subscribed
    wishes        \* history: the preferences asked for, and those a crossing patch wrote over

tables == <<person, preferences, inbox, notices, receipts>>
noteVars == <<tables, client, socket, hub, wishes>>

NoRow == [exists |-> FALSE]
Row == [exists |-> TRUE, read |-> FALSE, dismissed |-> FALSE, expired |-> FALSE, old |-> FALSE]
NoNotice == [state |-> "none"]
Unseen == [read |-> FALSE, dismissed |-> FALSE]
Resting_ == [pc |-> "idle"]
NoSummary == [rows |-> {}, notices |-> {}]
Audiences == {"ALL", "PREMIUM", "FREE"}

NoteInit ==
    /\ person \in [premium: BOOLEAN, verified: {TRUE}, member: BOOLEAN]
    /\ preferences \in [Categories -> BOOLEAN]
    /\ inbox = [k \in Keys |-> NoRow]
    /\ notices = [a \in Announcements |-> NoNotice]
    /\ receipts = [a \in Announcements |-> Unseen]
    /\ client = [r \in Readers |-> Resting_]
    /\ socket = [s \in Sockets |-> [state |-> "closed", shows |-> NoSummary, told |-> FALSE]]
    /\ hub = {} /\ wishes = [wanted |-> preferences, lost |-> {}]

\* buildActivityWhere and buildVisibleAnnouncementsWhere.
Listed(k) == inbox[k].exists /\ ~inbox[k].dismissed /\ ~inbox[k].expired
VisibleTo(premium, a) ==
    /\ notices[a].state = "active"
    /\ notices[a].audience \in {"ALL", IF premium THEN "PREMIUM" ELSE "FREE"}
    /\ notices[a].verifiedOnly => person.verified
    /\ notices[a].scoped => person.member
Visible(a) == VisibleTo(person.premium, a)

UnreadRows == {k \in Keys : Listed(k) /\ ~inbox[k].read}
UnreadNotices(premium) ==
    {a \in Announcements : VisibleTo(premium, a) /\ ~receipts[a].read /\ ~receipts[a].dismissed}
Unread == [rows |-> UnreadRows, notices |-> UnreadNotices(person.premium)]

\* What was read of a summary that is not pushed yet is stale when something changed.
Spoilt(x) ==
    IF client[x].pc \in {"summary", "push"} THEN [client[x] EXCEPT !.stale = TRUE] ELSE client[x]
Go(r, state) ==
    client' = [x \in Readers |-> IF x = r THEN state
                                 ELSE IF Unread' # Unread THEN Spoilt(x) ELSE client[x]]
NothingShown == socket' = [s \in Sockets |-> [socket[s] EXCEPT !.told = FALSE]]
\* The clock and administrators push nothing.
Untold == client' = [x \in Readers |-> Spoilt(x)] /\ NothingShown

----------------------------------------------------------------------------
(* createActivityNotificationTx in its caller's transaction. *)

Announce(r, k, anyway) ==
    /\ client[r].pc = "idle"
    /\ UNCHANGED <<tables, socket, hub, wishes>>
    /\ Go(r, IF (preferences[k[1]] \/ anyway) /\ ~inbox[k].exists
             THEN [pc |-> "create", key |-> k] ELSE Resting_)

\* The unique index makes an insert wait for another of the same key, and fails it when
\* that one commits; the failed statement takes the whole transaction with it.
Create(r) ==
    LET k == client[r].key IN
    /\ client[r].pc = "create"
    /\ \A x \in Clients : client[x].pc = "created" => client[x].key # k
    /\ UNCHANGED <<tables, socket, hub, wishes>>
    /\ Go(r, IF inbox[k].exists THEN Resting_ ELSE [pc |-> "created", key |-> k])

CommitCreated(r) ==
    /\ client[r].pc = "created"
    /\ inbox' = [inbox EXCEPT ![client[r].key] = Row]
    /\ UNCHANGED <<person, preferences, notices, receipts, socket, hub, wishes>>
    /\ Go(r, [pc |-> "publish"])

RollBack(r) ==
    /\ client[r].pc \in {"create", "created"}
    /\ UNCHANGED <<tables, socket, hub, wishes>>
    /\ Go(r, Resting_)

----------------------------------------------------------------------------
(* Reading, dismissing, preferences. *)

StartMark(r, k, dismiss) ==
    /\ client[r].pc = "idle" /\ inbox[k].exists
    /\ UNCHANGED <<tables, socket, hub, wishes>>
    /\ LET done == IF dismiss THEN inbox[k].dismissed ELSE inbox[k].read
       IN Go(r, IF done THEN [pc |-> "publish"]
                ELSE [pc |-> "mark", key |-> k, dismiss |-> dismiss, seen |-> inbox[k]])

Marked(r, row) == [row EXCEPT !.read = TRUE, !.dismissed = @ \/ client[r].dismiss]

\* A row the clean-up deleted in between fails the update.
Mark(r) ==
    LET k == client[r].key IN
    /\ client[r].pc = "mark"
    /\ inbox' = IF inbox[k].exists THEN [inbox EXCEPT ![k] = Marked(r, @)] ELSE inbox
    /\ UNCHANGED <<person, preferences, notices, receipts, socket, hub, wishes>>
    /\ Go(r, IF inbox[k].exists THEN [pc |-> "publish"] ELSE Resting_)

MarkAll(r) ==
    /\ client[r].pc = "idle"
    /\ inbox' = [k \in Keys |-> IF Listed(k) THEN [inbox[k] EXCEPT !.read = TRUE] ELSE inbox[k]]
    /\ UNCHANGED <<person, preferences, notices, receipts, socket, hub, wishes>>
    /\ Go(r, [pc |-> "publish"])

StartReceipt(r, a, dismiss) ==
    /\ client[r].pc = "idle" /\ Visible(a)
    /\ UNCHANGED <<tables, socket, hub, wishes>>
    /\ Go(r, IF receipts[a].read /\ ~dismiss THEN [pc |-> "publish"]
             ELSE [pc |-> "receipt", notice |-> a, dismiss |-> dismiss])

Receipt(r) ==
    /\ client[r].pc = "receipt"
    /\ receipts' = [receipts EXCEPT ![client[r].notice] =
                       [read |-> TRUE, dismissed |-> @.dismissed \/ client[r].dismiss]]
    /\ UNCHANGED <<person, preferences, inbox, notices, socket, hub, wishes>>
    /\ Go(r, [pc |-> "publish"])

\* A patch names some categories and says of each whether it is on.
Patches == UNION {[named -> BOOLEAN] : named \in SUBSET Categories \ {{}}}

\* A mistake of the kind PreferencesKept excludes: the patch is merged into the defaults.
MergedIntoDefaults(asked) ==
    [c \in Categories |-> IF c \in DOMAIN asked THEN asked[c] ELSE TRUE]
Merged(asked) == [c \in Categories |-> IF c \in DOMAIN asked THEN asked[c] ELSE preferences[c]]

StartPatch(r, asked) ==
    /\ client[r].pc = "idle"
    /\ UNCHANGED <<tables, socket, hub, wishes>>
    /\ Go(r, [pc |-> "patch", prefs |-> Merged(asked), asked |-> asked, before |-> preferences])

\* The whole object is written: what others changed since it was read is lost.
Patch(r) ==
    LET asked == client[r].asked IN
    /\ client[r].pc = "patch"
    /\ preferences' = client[r].prefs
    /\ wishes' = [wanted |-> [c \in Categories |-> IF c \in DOMAIN asked THEN asked[c]
                                                   ELSE wishes.wanted[c]],
                  lost |-> {c \in Categories \ DOMAIN asked :
                               c \in wishes.lost \/ client[r].before[c] # preferences[c]}]
    /\ UNCHANGED <<person, inbox, notices, receipts, socket, hub>>
    /\ Go(r, Resting_)

----------------------------------------------------------------------------
(* Summaries and sockets.  getSummary reads in several statements: the      *)
(* person and the rows, and the announcements for whom the person then was. *)

StartSummary(r) ==
    /\ client[r].pc = "publish"
    /\ UNCHANGED <<tables, socket, hub, wishes>>
    /\ Go(r, [pc |-> "summary", premium |-> person.premium, rows |-> UnreadRows, stale |-> FALSE])

\* A mistake of the kind PushedIsTrue excludes: announcements left out of the pushed summary.
InboxOnly(r) == [rows |-> client[r].rows, notices |-> {}]
Summary(r) == [rows |-> client[r].rows, notices |-> UnreadNotices(client[r].premium)]

ReadSummary(r) ==
    /\ client[r].pc = "summary"
    /\ UNCHANGED <<tables, socket, hub, wishes>>
    /\ Go(r, [pc |-> "push", summary |-> Summary(r), stale |-> client[r].stale])

\* A statement fails: what the request changed is not pushed, and a handshake ends, its
\* socket closed and still subscribed.
SummaryFails(r) ==
    /\ client[r].pc \in {"publish", "summary"}
    /\ UNCHANGED <<tables, hub, wishes>>
    /\ Go(r, Resting_)
    /\ IF r \in Sockets THEN socket' = [socket EXCEPT ![r].state = "closed"] ELSE NothingShown

\* Every subscribed socket that is not closed gets it, a handshake's own like the others.
Sent(summary, stale) ==
    [s \in Sockets |-> IF s \in hub /\ socket[s].state # "closed"
                       THEN [socket[s] EXCEPT !.shows = summary, !.told = ~stale] ELSE socket[s]]

PushSummary(r) ==
    LET sent == Sent(client[r].summary, client[r].stale) IN
    /\ client[r].pc = "push"
    /\ socket' = [s \in Sockets |-> IF s = r /\ socket[s].state = "opening"
                                    THEN [sent[s] EXCEPT !.state = "open"] ELSE sent[s]]
    /\ UNCHANGED <<tables, hub, wishes>>
    /\ Go(r, Resting_)

\* A handshake subscribes, and then reads and pushes its summary like a request.
Connect(s) ==
    /\ socket[s].state = "closed" /\ s \notin hub /\ client[s].pc = "idle"
    /\ hub' = hub \cup {s}
    /\ socket' = [socket EXCEPT ![s] = [state |-> "opening", shows |-> NoSummary, told |-> FALSE]]
    /\ UNCHANGED <<tables, wishes>>
    /\ Go(s, [pc |-> "publish"])

\* Before the handshake has ended no handler unsubscribes the socket.
Close(s) ==
    /\ socket[s].state # "closed"
    /\ hub' = IF socket[s].state = "open" THEN hub \ {s} ELSE hub
    /\ socket' = [socket EXCEPT ![s].state = "closed"]
    /\ UNCHANGED <<tables, client, wishes>>

----------------------------------------------------------------------------
(* Administrators, the clock and the clean-up. *)

CreateNotice(a, audience, verifiedOnly, scoped) ==
    /\ notices[a] = NoNotice
    /\ notices' = [notices EXCEPT ![a] = [state |-> "active", audience |-> audience,
                                          verifiedOnly |-> verifiedOnly, scoped |-> scoped]]
    /\ Untold /\ UNCHANGED <<person, preferences, inbox, receipts, hub, wishes>>

\* Cancelled by an administrator, or past its expiry.
EndNotice(a) ==
    /\ notices[a].state = "active"
    /\ notices' = [notices EXCEPT ![a].state = "ended"]
    /\ Untold /\ UNCHANGED <<person, preferences, inbox, receipts, hub, wishes>>

ChangePerson ==
    /\ person' = [person EXCEPT !.premium = ~@]
    /\ Untold /\ UNCHANGED <<preferences, inbox, notices, receipts, hub, wishes>>

AgeRow(k) ==
    /\ inbox[k].exists /\ ~inbox[k].old
    /\ inbox' = [inbox EXCEPT ![k] = IF @.expired THEN [@ EXCEPT !.old = TRUE]
                                     ELSE [@ EXCEPT !.expired = TRUE]]
    /\ Untold /\ UNCHANGED <<person, preferences, notices, receipts, hub, wishes>>

CleanUp ==
    /\ \E k \in Keys : inbox[k].exists /\ inbox[k].old
    /\ inbox' = [k \in Keys |-> IF inbox[k].exists /\ inbox[k].old THEN NoRow ELSE inbox[k]]
    /\ Untold /\ UNCHANGED <<person, preferences, notices, receipts, hub, wishes>>

SummarySteps(r) == StartSummary(r) \/ ReadSummary(r) \/ SummaryFails(r) \/ PushSummary(r)
RowSteps(r, k) ==
    \/ \E anyway \in BOOLEAN : Announce(r, k, anyway)
    \/ \E dismiss \in BOOLEAN : StartMark(r, k, dismiss)
    \/ Create(r) \/ CommitCreated(r) \/ RollBack(r) \/ Mark(r) \/ MarkAll(r) \/ SummarySteps(r)
NoticeSteps(r) ==
    \/ \E a \in Announcements, dismiss \in BOOLEAN : StartReceipt(r, a, dismiss)
    \/ Receipt(r) \/ SummarySteps(r)
PreferenceSteps(r) == (\E asked \in Patches : StartPatch(r, asked)) \/ Patch(r)
SocketSteps == \E s \in Sockets : Connect(s) \/ Close(s) \/ SummarySteps(s)
AdminSteps ==
    \E a \in Announcements :
        \/ \E audience \in Audiences, verifiedOnly, scoped \in BOOLEAN :
               CreateNotice(a, audience, verifiedOnly, scoped)
        \/ EndNotice(a)

NoteSteps ==
    \/ \E r \in Clients : (\E k \in Keys : RowSteps(r, k)) \/ NoticeSteps(r) \/ PreferenceSteps(r)
    \/ SocketSteps \/ AdminSteps \/ ChangePerson \/ CleanUp \/ \E k \in Keys : AgeRow(k)

NoteSpec == NoteInit /\ [][NoteSteps]_noteVars

NoteTypeOK ==
    /\ \A k \in Keys : inbox[k].exists /\ inbox[k].old => inbox[k].expired
    /\ hub \subseteq Sockets /\ wishes.lost \subseteq Categories
    /\ \A r \in Readers : client[r].pc \in {"idle", "create", "created", "publish", "summary", "push",
                                            "mark", "receipt", "patch"}

(***************************************************************************)
(* A socket that is open is subscribed, and once no request or handshake   *)
(* still has a summary to push, the last one it was sent is what is        *)
(* unread.  Unless that one was stale when it was sent (another request,   *)
(* or the socket's own handshake, had read it before the last change), the *)
(* push of a change failed, or the clock or an administrator, who push     *)
(* nothing, changed it since (publishSummary of notifications.service.ts,  *)
(* and the end of the handshake, notifications.websocket.ts).              *)
(***************************************************************************)
PushedIsTrue ==
    /\ NoteTypeOK
    /\ \A s \in Sockets :
          socket[s].state = "open" =>
              /\ s \in hub
              /\ socket[s].told /\ (\A r \in Readers : client[r].pc \notin {"publish", "summary", "push"})
                     => socket[s].shows = Unread

(***************************************************************************)
(* Every category is muted or not as the last patch that named it asked,   *)
(* whatever patches cross, until one that does not name it, and had read   *)
(* it before it was changed, writes over it (updatePreferences reads, then *)
(* writes the whole object).                                               *)
(***************************************************************************)
PreferencesKept == \A c \in Categories \ wishes.lost : preferences[c] = wishes.wanted[c]
==============================================================================
