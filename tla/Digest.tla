------------------------------- MODULE Digest -------------------------------
(***************************************************************************)
(* The mails that tell users of their unread messages, and the settings    *)
(* that ask for them.                                                      *)
(*                                                                         *)
(* One batch of one interval: the job server pages through the settings,   *)
(* counts the unread messages of each user of a page, and has a goroutine  *)
(* send each mail.  The goroutines share the variable of the loop over the *)
(* page, so that a mail goes to whomever the loop has come to when it is   *)
(* sent.  The span the batch looks back over is longer than a behaviour of *)
(* the model: minDate is LastInboxMessageViewed, as it was when the page   *)
(* was read.                                                               *)
(***************************************************************************)
EXTENDS Inbox, SequencesExt

CONSTANTS
  Unverified,       \* the users whose address is not verified
  GetUsersLimit,    \* the settings of a page
  Interval          \* the interval of the batch

ASSUME DigestAssumption ==
  Unverified \subseteq User /\ GetUsersLimit \in Nat \ {0}
  /\ Interval \in {"three_hour", "day", "week"}

NoMails == ""       \* the interval of those who ask for none
SettingRow == [user : User, interval : {NoMails, "three_hour", "day", "week"}]

(* The rows a behaviour starts with: of any user one at most.              *)
ASSUME SettingsAssumption ==
  \A s \in Situations :
    /\ s.settings \in Seq(SettingRow)
    /\ \A i, j \in DOMAIN s.settings : s.settings[i].user = s.settings[j].user => i = j

VARIABLES
  settings,  \* the rows of NotificationSettings, as inserted: the Id is
             \* their place
  job,       \* what the batch is doing: the last user of the pages done, the
             \* place in the page, and what its users had viewed when it was read
  pages,     \* the users of the pages read, in the order they were returned
  digests,   \* the mails: counted for whom, and sent to whom
  counted    \* history: the users whose messages the batch has counted

digestVars == <<settings, job, pages, digests, counted>>
notificationVars == <<inboxVars, digestVars>>

SettingsOf(u) == {i \in DOMAIN settings : settings[i].user = u}

----------------------------------------------------------------------------
(* Settings.  UserId is no key: the row is looked for on the replica, and  *)
(* inserted if it is missing.  More than one row is an error from then on. *)
(* The cached copy is deleted, which is never there: HGETALL has an answer *)
(* for a key that is not there, too, and nothing is ever put in.           *)
updateNotificationSetting(pr, u, interval) ==
  /\ Accept(pr, "setting") /\ Cardinality(SettingsOf(u)) < 2
  /\ \A i \in SettingsOf(u) : settings[i].interval # interval
  /\ Become(pr, [at |-> "setting", row |-> SettingsOf(u),
                 setting |-> [user |-> u, interval |-> interval]])
  /\ UNCHANGED notificationVars

SaveSetting(pr) ==
  LET r == request[pr]
  IN /\ At(pr, "setting") /\ Finish(pr)
     /\ settings' = IF r.row = {} THEN Append(settings, r.setting)
                    ELSE [i \in DOMAIN settings |-> IF i \in r.row THEN r.setting
                                                    ELSE settings[i]]
     /\ UNCHANGED <<inboxVars, job, pages, digests, counted>>

----------------------------------------------------------------------------
(* The batch.                                                              *)

JobStep == "digest" \in situation.ops /\ UNCHANGED <<requestVars, inboxVars, settings>>

(* The rows of a page: the first ones of the interval behind the last      *)
(* user, in the order of their users.                                      *)
SettingsBehind(last) ==
  {i \in DOMAIN settings : settings[i].interval = Interval /\ settings[i].user > last}

(* Mutant: a page has no order but that of insertion.                      *)
OldestSettings(rows) ==
  {i \in rows : Cardinality({j \in rows : j < i}) < GetUsersLimit}

FirstSettings(rows) ==
  {i \in rows : Cardinality({j \in rows : settings[j].user < settings[i].user
                               \/ (settings[j].user = settings[i].user /\ j < i)})
                  < GetUsersLimit}

(* Their users, read by another statement, in any order.                   *)
GetByIds(users) == SetToSeqs(users \cap live)
GetByInboxInterval(last) == GetByIds({settings[i].user : i \in FirstSettings(SettingsBehind(last))})

(* A page without users, or one that could not be read, is the end.        *)
ReadPage ==
  /\ JobStep /\ job.at = "page"
  /\ \E users \in GetByInboxInterval(job.last) :
       IF users = <<>>
       THEN job' = [job EXCEPT !.at = "over"] /\ UNCHANGED pages
       ELSE /\ job' = [at |-> "users", last |-> users[Len(users)], i |-> 1, since |-> lastViewed]
            /\ pages' = Append(pages, users)
  /\ UNCHANGED <<digests, counted>>

Current == pages[Len(pages)][job.i]
NextUser == IF job.i < Len(pages[Len(pages)]) THEN [job EXCEPT !.i = @ + 1]
            ELSE [job EXCEPT !.at = "page"]

(* The messages that were counted are also read, which adds nothing: none  *)
(* is ever deleted.                                                        *)
CountUnread ==
  /\ JobStep /\ job.at = "users" /\ job' = NextUser
  /\ counted' = IF Current \in Unverified THEN counted ELSE counted \cup {Current}
  /\ digests' = IF Current \in Unverified \/ UnreadSince(Current, job.since[Current]) = {}
                THEN digests
                ELSE Append(digests, [user |-> Current, page |-> Len(pages), to |-> 0])
  /\ UNCHANGED pages

(* The user the variable of the loop over page n holds.                    *)
LoopUser(n) == IF n < Len(pages) THEN pages[n][Len(pages[n])] ELSE Current
SendInboxMessagesDigestEmail(k) ==
  /\ JobStep /\ digests[k].to = 0
  /\ digests' = [digests EXCEPT ![k].to = LoopUser(digests[k].page)]
  /\ UNCHANGED <<job, pages, counted>>

(* A statement of the batch fails: reading a page ends the batch, reading  *)
(* a user's messages leaves that user out.                                 *)
JobFails ==
  /\ MayFail /\ "digest" \in situation.ops
  /\ \/ job.at = "page" /\ job' = [job EXCEPT !.at = "over"]
     \/ job.at = "users" /\ job' = NextUser
  /\ lost' = lost \cup {"digest"}
  /\ UNCHANGED <<situation, request, served, inboxVars, settings, pages, digests, counted>>

Batch == ReadPage \/ CountUnread
NotificationInit ==
  /\ InboxInit
  /\ settings = situation.settings
  /\ job = [at |-> "page", last |-> 0, i |-> 1, since |-> lastViewed]
  /\ pages = <<>> /\ digests = <<>> /\ counted = {}

NotificationNext ==
  \/ InboxNext /\ UNCHANGED digestVars
  \/ \E pr \in Proc : \/ \E u \in User, interval \in {NoMails, Interval} :
                           updateNotificationSetting(pr, u, interval)
                      \/ SaveSetting(pr)
  \/ Batch \/ JobFails
  \/ \E k \in DOMAIN digests : SendInboxMessagesDigestEmail(k)
=============================================================================
