-------------------------------- MODULE Messages --------------------------------
(***************************************************************************)
(* Secure messages: MessagesService over its repository, KMS and DynamoDB. *)
(*                                                                         *)
(* A POST /messages that the session guard let pass is a call, a little    *)
(* process that stops at each await; the message a call sends has that     *)
(* call as its id and its data key.  A PutItem or DeleteItem is a message  *)
(* to DynamoDB of which the SDK may send several copies, each when the     *)
(* answer to the one before did not come: a copy can be lost, or land      *)
(* after the handler has gone on or has given up.                          *)
(***************************************************************************)
EXTENDS Naturals, FiniteSets, Kms

CONSTANTS
  Calls,           \* the POST /messages calls
  Person,          \* who may have a session
  Deleters,        \* those of them in the group Admins or Managers
  Report,          \* what a message may say
  MaxInFlight,     \* how many handlers may be running at once
  MaxAttempts,     \* how often the SDK sends one write
  EventualReads    \* whether a get may return an older version of the item

ASSUME MessagesAssumption ==
  /\ IsFiniteSet(Calls)
  /\ Deleters \subseteq Person
  /\ MaxInFlight \in Nat /\ MaxAttempts \in Nat \ {0}
  /\ EventualReads \in BOOLEAN

Content == [subject : Report, sentBy : Person]

Record ==
  [messageId : Calls, subject : Report, sentBy : Person,
   status : {"unread", "read"},
   encryptedPayload : [key : Calls, text : Content], encryptedDataKey : Calls]

Status == {200, 400, 403, 404, 500}

ASSUME MessagesSentinelAssumption ==
  Undefined \notin Record /\ Undefined \notin Content /\ Undefined \notin Status

VARIABLES
  pc,         \* pc[c]: the await call c is at
  call,       \* call[c]: what the client of call c asked
  record,     \* record[c]: the record call c has built or read
  content,    \* content[c]: what call c has decrypted
  response,   \* response[c]: the HTTP status call c was answered with
  flying,     \* flying[c]: how many copies of the write of c may still land
  messages,   \* table wfn-secure-messages, by id
  written,    \* every version of a record ever put
  landings,   \* landings[c]: how often the write of c has landed
  racing,     \* racing[m]: who could still write m when it was last deleted
  misread     \* the decrypts that read a message the table held no longer

handlers == <<pc, call, record, content, response>>
table == <<messages, written, landings, racing, misread>>
vars == <<handlers, flying, table>>

-------------------------------------------------------------------------------
(* Handlers.                                                               *)

InFlight == {c \in Calls : pc[c] \notin {"unsent", "answered"}}

HasRoom == Cardinality(InFlight) < MaxInFlight

Begin(c, args, await) ==
  /\ pc[c] = "unsent"
  /\ pc' = [pc EXCEPT ![c] = await]
  /\ call' = [call EXCEPT ![c] = args]
  /\ UNCHANGED <<record, content, flying, table>>

Answer(c, status) ==
  /\ pc' = [pc EXCEPT ![c] = "answered"]
  /\ response' = [response EXCEPT ![c] = status]
  /\ UNCHANGED call

At(c, op, await) == pc[c] = await /\ call[c].op = op

\* Mutants: one attempt more than configured; the write not awaited.
SendWriteOnceMore(c) ==
  /\ pc' = [pc EXCEPT ![c] = "write"]
  /\ flying' = [flying EXCEPT ![c] = MaxAttempts + 1]
  /\ UNCHANGED <<call, response, table>>

SendWriteAndAnswer(c) ==
  /\ Answer(c, 200)
  /\ flying' = [flying EXCEPT ![c] = MaxAttempts]
  /\ UNCHANGED table

(***************************************************************************)
(* The handler hands its write to the SDK and awaits it.                   *)
(***************************************************************************)
SendWrite(c) ==
  /\ pc' = [pc EXCEPT ![c] = "write"]
  /\ flying' = [flying EXCEPT ![c] = MaxAttempts]
  /\ UNCHANGED <<call, response, table>>

(***************************************************************************)
(* What a get may return: the item, or with EventualReads any version of   *)
(* it put so far, or nothing.                                              *)
(***************************************************************************)
Views(id) ==
  IF EventualReads
  THEN {v \in written : v.messageId = id} \cup {Undefined}
  ELSE {messages[id]}

-------------------------------------------------------------------------------
(* send.                                                                   *)

Send(c) ==
  /\ HasRoom
  /\ \E person \in Person, report \in Report :
       Begin(c, [op |-> "send", user |-> person, report |-> report],
             "generateDataKey")
  /\ UNCHANGED response

ContentOf(c) == [subject |-> call[c].report, sentBy |-> call[c].user]

\* Mutant: a data key kept from another message travels with the payload.
NewRecordUnderKeptKey(c) ==
  LET sealed == Seal(c, ContentOf(c)) IN
  [messageId |-> c, subject |-> call[c].report, sentBy |-> call[c].user,
   status |-> "unread",
   encryptedPayload |-> sealed.encryptedPayload,
   encryptedDataKey |-> CHOOSE key \in Calls : TRUE]

NewRecord(c) ==
  LET sealed == Seal(c, ContentOf(c)) IN
  [messageId |-> c, subject |-> call[c].report, sentBy |-> call[c].user,
   status |-> "unread",
   encryptedPayload |-> sealed.encryptedPayload,
   encryptedDataKey |-> sealed.encryptedDataKey]

(***************************************************************************)
(* KMS answers with a data key, or incompletely.                           *)
(***************************************************************************)
Encrypt(c) ==
  /\ At(c, "send", "generateDataKey")
  /\ \/ /\ record' = [record EXCEPT ![c] = NewRecord(c)]
        /\ SendWrite(c)
     \/ Answer(c, 500) /\ UNCHANGED <<record, flying, table>>
  /\ UNCHANGED content

-------------------------------------------------------------------------------
(* decrypt.  Whoever has a session may read every message.                 *)

Decrypt(c) ==
  /\ HasRoom
  /\ \E id \in Calls : Begin(c, [op |-> "decrypt", id |-> id], "get")
  /\ UNCHANGED response

ReadRecord(c) ==
  /\ At(c, "decrypt", "get")
  /\ \E v \in Views(call[c].id) :
       \/ v = Undefined /\ Answer(c, 404) /\ UNCHANGED <<record, table>>
       \/ /\ v # Undefined
          /\ pc' = [pc EXCEPT ![c] = "kmsDecrypt"]
          /\ record' = [record EXCEPT ![c] = v]
          /\ misread' = IF messages[call[c].id] = Undefined
                        THEN misread \cup {c} ELSE misread
          /\ UNCHANGED <<call, response, messages, written, landings, racing>>
  /\ UNCHANGED <<content, flying>>

\* Mutant: the write is made before the content is known.
MarkFirst(c) ==
  /\ At(c, "decrypt", "kmsDecrypt")
  /\ SendWrite(c)
  /\ UNCHANGED <<record, content>>

MarkedRead(r) == [r EXCEPT !.status = "read"]

(***************************************************************************)
(* KMS gives the data key back, or answers without one; the payload opens  *)
(* under it or not.  Only an unread message is put back.                   *)
(***************************************************************************)
Open(c) ==
  /\ At(c, "decrypt", "kmsDecrypt")
  /\ LET text == Unsealed(record[c].encryptedPayload, record[c].encryptedDataKey)
     IN \/ /\ Answer(c, 500)
           /\ UNCHANGED <<content, flying, table>>
        \/ /\ text = Undefined /\ Answer(c, 400)
           /\ UNCHANGED <<content, flying, table>>
        \/ /\ text # Undefined
           /\ content' = [content EXCEPT ![c] = text]
           /\ \/ record[c].status # "read" /\ SendWrite(c)
              \/ /\ record[c].status = "read" /\ Answer(c, 200)
                 /\ UNCHANGED <<flying, table>>
  /\ UNCHANGED record

-------------------------------------------------------------------------------
(* delete.                                                                 *)

(***************************************************************************)
(* Refused before any await to whoever may not delete.                     *)
(***************************************************************************)
Delete(c) ==
  /\ HasRoom
  /\ \E person \in Person, id \in Calls :
       LET args == [op |-> "delete", user |-> person, id |-> id] IN
       \/ person \in Deleters /\ Begin(c, args, "get") /\ UNCHANGED response
       \/ /\ person \notin Deleters /\ Begin(c, args, "answered")
          /\ response' = [response EXCEPT ![c] = 403]

CheckDelete(c) ==
  /\ At(c, "delete", "get")
  /\ \E v \in Views(call[c].id) :
       \/ v = Undefined /\ Answer(c, 404) /\ UNCHANGED <<flying, table>>
       \/ v # Undefined /\ SendWrite(c)
  /\ UNCHANGED <<record, content>>

-------------------------------------------------------------------------------
(* The writes of the handlers.                                             *)

Target(c) == IF call[c].op = "send" THEN c ELSE call[c].id

\* Mutant: the mark is toggled in the table instead of set.
PutToggled(c) ==
  IF call[c].op # "decrypt" THEN record[c]
  ELSE [record[c] EXCEPT !.status =
          IF messages[Target(c)] # Undefined /\ messages[Target(c)].status = "read"
          THEN "unread" ELSE "read"]

Put(c) == IF call[c].op = "decrypt" THEN MarkedRead(record[c]) ELSE record[c]

(***************************************************************************)
(* The calls that hold a record of message id and may still put it.        *)
(***************************************************************************)
Writers(id) ==
  {c \in Calls : /\ record[c] # Undefined /\ Target(c) = id
                 /\ pc[c] \in {"kmsDecrypt", "write"} \/ flying[c] > 0}

LandPut(c) ==
  /\ messages' = [messages EXCEPT ![Target(c)] = Put(c)]
  /\ written' = written \cup {Put(c)}
  /\ UNCHANGED <<racing, misread>>

\* Mutant: the item deleted is keyed by the call, not by the message.
LandDeleteOwnKey(c) ==
  /\ messages' = [messages EXCEPT ![c] = Undefined]
  /\ racing' = [racing EXCEPT ![c] =
                  {[by |-> d, after |-> landings[d]] : d \in Writers(c)}]
  /\ UNCHANGED <<written, misread>>

(***************************************************************************)
(* A decrypt that read message m too late is from now on one of those      *)
(* that raced its deletion.                                                *)
(***************************************************************************)
LandDelete(c) ==
  /\ messages' = [messages EXCEPT ![Target(c)] = Undefined]
  /\ racing' = [racing EXCEPT ![Target(c)] =
                  {[by |-> d, after |-> landings[d]] : d \in Writers(Target(c))}]
  /\ misread' = {d \in misread : call[d].id # Target(c)}
  /\ UNCHANGED written

(***************************************************************************)
(* A copy of the write lands.  Its answer reaches the handler, if that is  *)
(* still waiting, or is lost.                                              *)
(***************************************************************************)
Land(c) ==
  /\ flying[c] > 0
  /\ flying' = [flying EXCEPT ![c] = @ - 1]
  /\ landings' = [landings EXCEPT ![c] = @ + 1]
  /\ \/ call[c].op \in {"send", "decrypt"} /\ LandPut(c)
     \/ call[c].op = "delete" /\ LandDelete(c)
  /\ \/ pc[c] = "write" /\ Answer(c, 200)
     \/ UNCHANGED <<pc, call, response>>
  /\ UNCHANGED <<record, content>>

(***************************************************************************)
(* An AWS call rejects, after all its attempts if it is a write.           *)
(***************************************************************************)
Fail(c) ==
  /\ c \in InFlight
  /\ Answer(c, 500)
  /\ UNCHANGED <<record, content, flying, table>>

-------------------------------------------------------------------------------
(* The specification.                                                      *)

Terminating ==
  /\ \A c \in Calls : pc[c] = "answered" /\ flying[c] = 0
  /\ UNCHANGED vars

Init ==
  /\ pc = [c \in Calls |-> "unsent"]
  /\ call = [c \in Calls |-> Undefined]
  /\ record = [c \in Calls |-> Undefined]
  /\ content = [c \in Calls |-> Undefined]
  /\ response = [c \in Calls |-> Undefined]
  /\ flying = [c \in Calls |-> 0]
  /\ messages = [m \in Calls |-> Undefined]
  /\ written = {}
  /\ landings = [c \in Calls |-> 0]
  /\ racing = [m \in Calls |-> {}]
  /\ misread = {}

Step(c) ==
  Encrypt(c) \/ ReadRecord(c) \/ Open(c) \/ CheckDelete(c) \/ Land(c)

Next ==
  \/ \E c \in Calls :
       Send(c) \/ Decrypt(c) \/ Delete(c) \/ Step(c) \/ Fail(c)
  \/ Terminating

Spec == Init /\ [][Next]_vars

-------------------------------------------------------------------------------
(* Type correctness.                                                       *)

SendArgs == [op : {"send"}, user : Person, report : Report]
DecryptArgs == [op : {"decrypt"}, id : Calls]
DeleteArgs == [op : {"delete"}, user : Person, id : Calls]
Args == SendArgs \cup DecryptArgs \cup DeleteArgs

FrameOK(c) ==
  /\ pc[c] = "unsent" => call[c] = Undefined /\ response[c] = Undefined
  /\ pc[c] # "unsent" => call[c] \in Args
  /\ pc[c] = "generateDataKey" => call[c] \in SendArgs
  /\ pc[c] = "get" => call[c] \in DecryptArgs \cup DeleteArgs
  /\ pc[c] = "kmsDecrypt" => call[c] \in DecryptArgs
  /\ pc[c] \in {"unsent", "generateDataKey", "get", "kmsDecrypt"} =>
       flying[c] = 0 /\ landings[c] = 0 /\ content[c] = Undefined
  /\ pc[c] \in {"unsent", "generateDataKey", "get"} => record[c] = Undefined
  /\ pc[c] = "kmsDecrypt" => record[c] # Undefined
  /\ (pc[c] = "write" \/ flying[c] > 0 \/ landings[c] > 0)
       /\ call[c].op # "delete" => record[c] # Undefined
  /\ c \in misread => call[c] \in DecryptArgs /\ record[c] # Undefined

TypeOK ==
  /\ pc \in [Calls -> {"unsent", "generateDataKey", "get", "kmsDecrypt",
                       "write", "answered"}]
  /\ call \in [Calls -> Args \cup {Undefined}]
  /\ record \in [Calls -> Record \cup {Undefined}]
  /\ content \in [Calls -> Content \cup {Undefined}]
  /\ response \in [Calls -> Status \cup {Undefined}]
  /\ flying \in [Calls -> 0 .. MaxAttempts]
  /\ landings \in [Calls -> Nat]
  /\ messages \in [Calls -> Record \cup {Undefined}]
  /\ written \subseteq Record
  /\ racing \in [Calls -> SUBSET [by : Calls, after : Nat]]
  /\ misread \subseteq Calls
  /\ \A c \in Calls : FrameOK(c)

-------------------------------------------------------------------------------
(* Properties.                                                             *)

(***************************************************************************)
(* Every version of a message ever stored, by whomever it was put back,    *)
(* opens to what its sender sent, and its readable part says the same; and *)
(* so does whatever a reader was given.                                    *)
(***************************************************************************)
Intact(v) ==
  LET m == v.messageId IN
  /\ call[m] \in SendArgs
  /\ v.subject = call[m].report /\ v.sentBy = call[m].user
  /\ Unsealed(v.encryptedPayload, v.encryptedDataKey) = ContentOf(m)

ContentIntact ==
  /\ \A v \in written : Intact(v)
  /\ \A c \in Calls : content[c] # Undefined =>
       call[call[c].id] \in SendArgs /\ content[c] = ContentOf(call[c].id)

(***************************************************************************)
(* A message is marked read only after somebody's decrypt has opened it,   *)
(* and who was told 200 has opened it and left it marked, whichever calls  *)
(* failed.                                                                 *)
(***************************************************************************)
Opened(m) ==
  \E c \in Calls : call[c] \in DecryptArgs /\ call[c].id = m /\ content[c] # Undefined

ReadMeansOpened ==
  /\ \A v \in written : v.status = "read" => Opened(v.messageId)
  /\ \A c \in Calls : call[c] \in DecryptArgs /\ response[c] = 200 =>
       /\ content[c] # Undefined
       /\ \E v \in written : v.messageId = call[c].id /\ v.status = "read"

(***************************************************************************)
(* A message that was marked read is unread again only when the SDK has    *)
(* delivered the sender's put twice.                                       *)
(***************************************************************************)
UnreadAgainOnlyByRepeat ==
  \A m \in Calls :
    /\ messages[m] # Undefined /\ messages[m].status = "unread"
    /\ \E v \in written : v.messageId = m /\ v.status = "read"
    => landings[m] >= 2

(***************************************************************************)
(* A message that a delete has removed is there again only when one of two *)
(* copies of it was put since: that of a call which could still put it at  *)
(* the moment it was removed, or that of a decrypt which read it, from a   *)
(* replica, when it was already gone.                                      *)
(***************************************************************************)
Removed(m) ==
  \E c \in Calls : call[c] \in DeleteArgs /\ call[c].id = m /\ landings[c] > 0

BroughtBack(m) == \E w \in racing[m] : landings[w.by] > w.after

Revived(m) == \E c \in misread : call[c].id = m /\ landings[c] > 0

BackOnlyFromCopies ==
  \A m \in Calls :
    Removed(m) /\ messages[m] # Undefined => BroughtBack(m) \/ Revived(m)

(***************************************************************************)
(* The answers are true: of a send or a delete told 200 the write has      *)
(* landed, and a message so sent is in the table until a delete removes    *)
(* it; a call told 4xx never writes; only who may delete has removed one,  *)
(* and only one that had been sent.                                        *)
(***************************************************************************)
AnswersAreHonest ==
  \A c \in Calls :
    /\ response[c] \in {400, 403, 404} => landings[c] = 0 /\ flying[c] = 0
    /\ response[c] = 200 /\ call[c].op # "decrypt" => landings[c] > 0
    /\ response[c] = 200 /\ call[c].op = "send" =>
         messages[c] # Undefined \/ Removed(c)
    /\ call[c] \in DeleteArgs /\ landings[c] > 0 =>
         /\ call[c].user \in Deleters
         /\ \E v \in written : v.messageId = call[c].id

-------------------------------------------------------------------------------
(* The inductive invariant behind them.                                    *)

Committed(c) == pc[c] = "write" \/ flying[c] > 0 \/ landings[c] > 0

(***************************************************************************)
(* What a call that has come so far knows of the messages.                 *)
(***************************************************************************)
HeldOK(c) ==
  /\ call[c] \in SendArgs /\ record[c] # Undefined => record[c] = NewRecord(c)
  /\ call[c] \in DecryptArgs /\ record[c] # Undefined =>
       record[c] \in written /\ record[c].messageId = call[c].id
  /\ call[c] \in DeleteArgs /\ (pc[c] = "get" \/ Committed(c)) =>
       call[c].user \in Deleters
  /\ call[c] \in DeleteArgs /\ Committed(c) =>
       \E v \in written : v.messageId = call[c].id
  /\ content[c] # Undefined => call[c] \in DecryptArgs /\ record[c] # Undefined
       /\ content[c] = ContentOf(call[c].id)
  /\ call[c] \in DecryptArgs /\ Committed(c) => content[c] # Undefined
  /\ call[c] \in DecryptArgs /\ landings[c] > 0 => MarkedRead(record[c]) \in written
  /\ response[c] # Undefined => pc[c] = "answered"
  /\ response[c] \in {400, 403, 404} => ~Committed(c)
  /\ response[c] = 200 =>
       \/ landings[c] > 0
       \/ /\ call[c] \in DecryptArgs /\ content[c] # Undefined
          /\ record[c].status = "read"

(***************************************************************************)
(* The item of a message, its versions and its deletions.                  *)
(***************************************************************************)
ItemOK(m) ==
  /\ messages[m] # Undefined => messages[m] \in written /\ messages[m].messageId = m
  /\ call[m] \in SendArgs /\ landings[m] > 0 => messages[m] # Undefined \/ Removed(m)
  /\ messages[m] # Undefined /\ messages[m].status = "unread"
       /\ (\E v \in written : v.messageId = m /\ v.status = "read")
     => landings[m] >= 2

(***************************************************************************)
(* A removed message stays away until one of those that raced the deletion *)
(* puts it, or one that read it too late.                                  *)
(***************************************************************************)
AwayOK(m) ==
  Removed(m) =>
    \/ BroughtBack(m) \/ Revived(m)
    \/ /\ messages[m] = Undefined
       /\ \A d \in Writers(m) :
            d \in misread \/ \E w \in racing[m] : w.by = d /\ w.after <= landings[d]

VersionOK(v) ==
  /\ Intact(v)
  /\ landings[v.messageId] > 0
  /\ v.status = "read" => Opened(v.messageId)

MessagesInv ==
  /\ \A c \in Calls : HeldOK(c)
  /\ \A v \in written : VersionOK(v)
  /\ \A m \in Calls : ItemOK(m)
  /\ \A m \in Calls : AwayOK(m)
===============================================================================
