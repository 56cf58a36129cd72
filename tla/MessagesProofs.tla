----------------------------- MODULE MessagesProofs -----------------------------
(***************************************************************************)
(* Theorems about Messages, for any number of calls, persons and attempts  *)
(* of the SDK.                                                             *)
(***************************************************************************)
EXTENDS Messages, TLAPS

-------------------------------------------------------------------------------
(* Lemmas about records.                                                   *)

LEMMA NewRecordType ==
  ASSUME NEW c \in Calls, call[c] \in SendArgs
  PROVE  /\ NewRecord(c) \in Record
         /\ NewRecord(c).messageId = c /\ NewRecord(c).status = "unread"
         /\ NewRecord(c).subject = call[c].report
         /\ NewRecord(c).sentBy = call[c].user
         /\ Unsealed(NewRecord(c).encryptedPayload,
                     NewRecord(c).encryptedDataKey) = ContentOf(c)
  BY DEF NewRecord, Record, ContentOf, Content, Seal, Unsealed, SendArgs

LEMMA MarkedReadType ==
  ASSUME NEW r \in Record
  PROVE  /\ MarkedRead(r) \in Record
         /\ MarkedRead(r).messageId = r.messageId
         /\ MarkedRead(r).status = "read"
         /\ MarkedRead(r).subject = r.subject /\ MarkedRead(r).sentBy = r.sentBy
         /\ MarkedRead(r).encryptedPayload = r.encryptedPayload
         /\ MarkedRead(r).encryptedDataKey = r.encryptedDataKey
  BY DEF MarkedRead, Record

LEMMA UnsealedType ==
  ASSUME NEW r \in Record
  PROVE  Unsealed(r.encryptedPayload, r.encryptedDataKey) \in Content \cup {Undefined}
  BY DEF Unsealed, Record

LEMMA ViewsType ==
  ASSUME TypeOK, NEW id \in Calls, NEW v \in Views(id)
  PROVE  v \in Record \cup {Undefined}
  BY DEF TypeOK, Views

LEMMA UndefinedOutside ==
  Undefined \notin Record /\ Undefined \notin Content /\ Undefined \notin Status
  BY MessagesSentinelAssumption

-------------------------------------------------------------------------------
(* Type correctness.                                                       *)

(***************************************************************************)
(* What a step of call c may touch of the calls: c alone.                  *)
(***************************************************************************)
OnlyOf(c) ==
  /\ pc' = [pc EXCEPT ![c] = pc'[c]]
  /\ call' = [call EXCEPT ![c] = call'[c]]
  /\ record' = [record EXCEPT ![c] = record'[c]]
  /\ content' = [content EXCEPT ![c] = content'[c]]
  /\ response' = [response EXCEPT ![c] = response'[c]]
  /\ flying' = [flying EXCEPT ![c] = flying'[c]]
  /\ landings' = [landings EXCEPT ![c] = landings'[c]]

(***************************************************************************)
(* Such a step keeps the types when it keeps those of c and of the table.  *)
(***************************************************************************)
LEMMA TypeFrame ==
  ASSUME TypeOK, NEW c \in Calls, OnlyOf(c),
         pc'[c] \in {"unsent", "generateDataKey", "get", "kmsDecrypt",
                     "write", "answered"},
         call'[c] \in Args \cup {Undefined},
         record'[c] \in Record \cup {Undefined},
         content'[c] \in Content \cup {Undefined},
         response'[c] \in Status \cup {Undefined},
         flying'[c] \in 0 .. MaxAttempts, landings'[c] \in Nat,
         messages' \in [Calls -> Record \cup {Undefined}],
         written' \subseteq Record,
         racing' \in [Calls -> SUBSET [by : Calls, after : Nat]],
         misread' \subseteq misread \cup {c},
         FrameOK(c)'
  PROVE  TypeOK'
<1>1. \A d \in Calls : FrameOK(d)'
  <2> SUFFICES ASSUME NEW d \in Calls, d # c PROVE FrameOK(d)'
    OBVIOUS
  <2>1. /\ pc'[d] = pc[d] /\ call'[d] = call[d] /\ record'[d] = record[d]
        /\ content'[d] = content[d] /\ response'[d] = response[d]
        /\ flying'[d] = flying[d] /\ landings'[d] = landings[d]
    BY DEF TypeOK, OnlyOf
  <2>2. FrameOK(d)
    BY DEF TypeOK
  <2>3. QED
    BY <2>1, <2>2 DEF FrameOK
<1>2. /\ pc' \in [Calls -> {"unsent", "generateDataKey", "get", "kmsDecrypt",
                           "write", "answered"}]
      /\ call' \in [Calls -> Args \cup {Undefined}]
  BY DEF TypeOK, OnlyOf
<1>3. /\ record' \in [Calls -> Record \cup {Undefined}]
      /\ content' \in [Calls -> Content \cup {Undefined}]
  BY DEF TypeOK, OnlyOf
<1>4. /\ response' \in [Calls -> Status \cup {Undefined}]
      /\ flying' \in [Calls -> 0 .. MaxAttempts]
      /\ landings' \in [Calls -> Nat]
  BY DEF TypeOK, OnlyOf
<1>5. QED
  BY <1>1, <1>2, <1>3, <1>4 DEF TypeOK

(***************************************************************************)
(* What each kind of step does to its call.                                *)
(***************************************************************************)
LEMMA SameCalls ==
  ASSUME TypeOK, NEW c \in Calls
  PROVE  /\ record' = record => record' = [record EXCEPT ![c] = record'[c]]
         /\ content' = content => content' = [content EXCEPT ![c] = content'[c]]
         /\ response' = response =>
              response' = [response EXCEPT ![c] = response'[c]]
         /\ flying' = flying => flying' = [flying EXCEPT ![c] = flying'[c]]
         /\ landings' = landings =>
              landings' = [landings EXCEPT ![c] = landings'[c]]
         /\ call' = call => call' = [call EXCEPT ![c] = call'[c]]
         /\ pc' = pc => pc' = [pc EXCEPT ![c] = pc'[c]]
  BY DEF TypeOK

LEMMA BeginOnly ==
  ASSUME TypeOK, NEW c \in Calls, NEW args, NEW await, Begin(c, args, await)
  PROVE  /\ pc[c] = "unsent" /\ pc'[c] = await /\ call'[c] = args
         /\ record'[c] = Undefined /\ content'[c] = Undefined
         /\ flying'[c] = 0 /\ landings'[c] = 0
         /\ record' = record /\ content' = content /\ flying' = flying
         /\ landings' = landings /\ messages' = messages
         /\ written' = written /\ racing' = racing /\ misread' = misread
         /\ c \notin misread
         /\ pc' = [pc EXCEPT ![c] = pc'[c]]
         /\ call' = [call EXCEPT ![c] = call'[c]]
  BY DEF TypeOK, FrameOK, Begin, table

LEMMA AnswerOnly ==
  ASSUME TypeOK, NEW c \in Calls, NEW status, Answer(c, status)
  PROVE  /\ pc'[c] = "answered" /\ call'[c] = call[c] /\ response'[c] = status
         /\ call' = call
         /\ response' = [response EXCEPT ![c] = status]
         /\ pc' = [pc EXCEPT ![c] = "answered"]
  BY DEF TypeOK, Answer

LEMMA SendWriteOnly ==
  ASSUME TypeOK, NEW c \in Calls, SendWrite(c)
  PROVE  /\ pc'[c] = "write" /\ call'[c] = call[c] /\ response'[c] = response[c]
         /\ flying'[c] = MaxAttempts
         /\ pc' = [pc EXCEPT ![c] = "write"]
         /\ flying' = [flying EXCEPT ![c] = MaxAttempts]
         /\ call' = call /\ response' = response /\ landings' = landings
         /\ messages' = messages /\ written' = written /\ racing' = racing
         /\ misread' = misread
  BY DEF TypeOK, SendWrite, table

LEMMA SendType ==
  ASSUME TypeOK, NEW c \in Calls, Send(c)
  PROVE  TypeOK'
<1>1. PICK person \in Person, report \in Report :
        /\ Begin(c, [op |-> "send", user |-> person, report |-> report],
                 "generateDataKey")
        /\ UNCHANGED response
  BY DEF Send
<1>2. call'[c] \in SendArgs /\ pc'[c] = "generateDataKey"
  BY <1>1, BeginOnly DEF SendArgs
<1>3. OnlyOf(c)
  BY <1>1, BeginOnly, SameCalls DEF OnlyOf
<1>4. FrameOK(c)'
  BY <1>1, <1>2, BeginOnly DEF FrameOK, Args
<1>5. QED
  BY <1>1, <1>2, <1>3, <1>4, BeginOnly, TypeFrame DEF TypeOK, Args

LEMMA DecryptType ==
  ASSUME TypeOK, NEW c \in Calls, Decrypt(c)
  PROVE  TypeOK'
<1>1. PICK id \in Calls :
        Begin(c, [op |-> "decrypt", id |-> id], "get") /\ UNCHANGED response
  BY DEF Decrypt
<1>2. call'[c] \in DecryptArgs /\ pc'[c] = "get"
  BY <1>1, BeginOnly DEF DecryptArgs
<1>3. OnlyOf(c)
  BY <1>1, BeginOnly, SameCalls DEF OnlyOf
<1>4. FrameOK(c)'
  BY <1>1, <1>2, BeginOnly DEF FrameOK, Args
<1>5. QED
  BY <1>1, <1>2, <1>3, <1>4, BeginOnly, TypeFrame DEF TypeOK, Args

LEMMA DeleteType ==
  ASSUME TypeOK, NEW c \in Calls, Delete(c)
  PROVE  TypeOK'
<1>1. PICK person \in Person, id \in Calls :
        LET args == [op |-> "delete", user |-> person, id |-> id] IN
        \/ person \in Deleters /\ Begin(c, args, "get") /\ UNCHANGED response
        \/ /\ person \notin Deleters /\ Begin(c, args, "answered")
           /\ response' = [response EXCEPT ![c] = 403]
  BY DEF Delete
<1>2. call'[c] \in DeleteArgs /\ pc'[c] \in {"get", "answered"}
  BY <1>1, BeginOnly DEF DeleteArgs
<1>3. /\ response' = [response EXCEPT ![c] = response'[c]]
      /\ response'[c] \in {403, response[c]}
  BY <1>1, SameCalls DEF TypeOK
<1>6. OnlyOf(c)
  BY <1>1, <1>3, BeginOnly, SameCalls DEF OnlyOf
<1>4. FrameOK(c)'
  BY <1>1, <1>2, BeginOnly DEF FrameOK, Args
<1>5. QED
  BY <1>1, <1>2, <1>3, <1>4, <1>6, BeginOnly, TypeFrame DEF TypeOK, Args, Status

LEMMA EncryptType ==
  ASSUME TypeOK, NEW c \in Calls, Encrypt(c)
  PROVE  TypeOK'
<1>1. /\ pc[c] = "generateDataKey" /\ call[c] \in SendArgs
      /\ flying[c] = 0 /\ landings[c] = 0 /\ content[c] = Undefined
      /\ record[c] = Undefined /\ c \notin misread
  BY DEF Encrypt, At, TypeOK, FrameOK
<1>2. CASE record' = [record EXCEPT ![c] = NewRecord(c)] /\ SendWrite(c)
  <2>1. content' = content
    BY DEF Encrypt
  <2>2. record'[c] \in Record /\ record'[c] # Undefined
    BY <1>1, <1>2, NewRecordType, UndefinedOutside DEF TypeOK
  <2>3. OnlyOf(c)
    BY <1>2, <2>1, SendWriteOnly, SameCalls DEF OnlyOf, TypeOK
  <2>4. FrameOK(c)'
    BY <1>1, <1>2, <2>2, SendWriteOnly DEF FrameOK, Args
  <2>5. MaxAttempts \in 0 .. MaxAttempts
    BY MessagesAssumption
  <2>6. QED
    BY <1>1, <1>2, <2>1, <2>2, <2>3, <2>4, <2>5, SendWriteOnly, TypeFrame
    DEF TypeOK, Args
<1>3. CASE Answer(c, 500) /\ UNCHANGED <<record, flying, table>>
  <2>1. /\ content' = content /\ record' = record /\ flying' = flying
        /\ UNCHANGED table
    BY <1>3 DEF Encrypt
  <2>2. OnlyOf(c)
    BY <1>3, <2>1, AnswerOnly, SameCalls DEF OnlyOf, table
  <2>3. FrameOK(c)'
    BY <1>1, <1>3, <2>1, AnswerOnly DEF FrameOK, Args, table
  <2>4. QED
    BY <1>1, <1>3, <2>1, <2>2, <2>3, AnswerOnly, TypeFrame
    DEF TypeOK, Args, table, Status
<1>4. QED
  BY <1>2, <1>3 DEF Encrypt

(***************************************************************************)
(* An answer that changes nothing else keeps the types.                    *)
(***************************************************************************)
LEMMA AnswerType ==
  ASSUME TypeOK, NEW c \in Calls, pc[c] # "unsent",
         NEW status \in Status, Answer(c, status),
         UNCHANGED <<record, content, flying, table>>
  PROVE  TypeOK'
<1>1. OnlyOf(c)
  BY AnswerOnly, SameCalls DEF OnlyOf, table
<1>2. FrameOK(c) /\ call[c] \in Args
  BY DEF TypeOK, FrameOK
<1>3. FrameOK(c)'
  BY <1>2, AnswerOnly DEF FrameOK, table
<1>4. QED
  BY <1>1, <1>2, <1>3, AnswerOnly, TypeFrame DEF TypeOK, table

(***************************************************************************)
(* What the other alternative of ReadRecord does: v is the record read.    *)
(***************************************************************************)
ReadsRecord(c, v) ==
  /\ v # Undefined
  /\ pc' = [pc EXCEPT ![c] = "kmsDecrypt"]
  /\ record' = [record EXCEPT ![c] = v]
  /\ misread' = IF messages[call[c].id] = Undefined
                THEN misread \cup {c} ELSE misread
  /\ UNCHANGED <<call, response, messages, written, landings, racing>>

LEMMA ReadRecordCases ==
  ASSUME NEW c \in Calls, ReadRecord(c)
  PROVE  \/ Answer(c, 404) /\ UNCHANGED <<record, content, flying, table>>
         \/ \E v \in Views(call[c].id) : ReadsRecord(c, v)
  BY DEF ReadRecord, ReadsRecord

LEMMA ReadRecordType ==
  ASSUME TypeOK, NEW c \in Calls, ReadRecord(c)
  PROVE  TypeOK'
<1>1. /\ pc[c] = "get" /\ call[c] \in DecryptArgs
      /\ flying[c] = 0 /\ landings[c] = 0 /\ content[c] = Undefined
      /\ UNCHANGED <<content, flying>>
  BY DEF ReadRecord, At, TypeOK, FrameOK, DecryptArgs, DeleteArgs
<1>2. CASE Answer(c, 404) /\ UNCHANGED <<record, table>>
  BY <1>1, <1>2, AnswerType DEF Status
<1>3. ASSUME NEW v \in Views(call[c].id), ReadsRecord(c, v)
      PROVE  TypeOK'
  <2>1. v \in Record /\ misread' \subseteq misread \cup {c}
    BY <1>1, <1>3, ViewsType DEF DecryptArgs, ReadsRecord
  <2>2. pc'[c] = "kmsDecrypt" /\ record'[c] = v
    BY <1>3 DEF TypeOK, ReadsRecord
  <2>3. OnlyOf(c)
    BY <1>1, <1>3, <2>2, SameCalls DEF OnlyOf, ReadsRecord
  <2>4. FrameOK(c)'
    BY <1>1, <1>3, <2>2 DEF FrameOK, Args, ReadsRecord
  <2>5. QED
    BY <1>1, <1>3, <2>1, <2>2, <2>3, <2>4, TypeFrame DEF TypeOK, Args, ReadsRecord
<1>4. QED
  BY <1>2, <1>3, ReadRecordCases

LEMMA OpenType ==
  ASSUME TypeOK, NEW c \in Calls, Open(c)
  PROVE  TypeOK'
<1> DEFINE text ==
      Unsealed(record[c].encryptedPayload, record[c].encryptedDataKey)
<1>1. /\ pc[c] = "kmsDecrypt" /\ call[c] \in DecryptArgs
      /\ flying[c] = 0 /\ landings[c] = 0
      /\ record[c] \in Record /\ record[c] # Undefined /\ record' = record
  BY DEF Open, At, TypeOK, FrameOK
<1>2. \/ /\ Answer(c, 500) \/ Answer(c, 400)
         /\ UNCHANGED <<content, flying, table>>
      \/ /\ text # Undefined
         /\ content' = [content EXCEPT ![c] = text]
         /\ \/ SendWrite(c)
            \/ Answer(c, 200) /\ UNCHANGED <<flying, table>>
  BY DEF Open
<1>3. CASE /\ Answer(c, 500) \/ Answer(c, 400)
           /\ UNCHANGED <<content, flying, table>>
  BY <1>1, <1>3, AnswerType DEF Status
<1>4. CASE text # Undefined /\ content' = [content EXCEPT ![c] = text]
  <2>1. content'[c] \in Content
    BY <1>1, <1>4, UnsealedType DEF TypeOK
  <2>2. MaxAttempts \in 0 .. MaxAttempts
    BY MessagesAssumption
  <2>3. CASE SendWrite(c)
    <3>1. OnlyOf(c)
      BY <1>1, <1>4, <2>1, <2>3, SendWriteOnly, SameCalls DEF OnlyOf, TypeOK
    <3>2. FrameOK(c)'
      BY <1>1, <2>3, SendWriteOnly DEF FrameOK, Args
    <3>3. QED
      BY <1>1, <2>1, <2>2, <2>3, <3>1, <3>2, SendWriteOnly, TypeFrame
      DEF TypeOK, Args
  <2>4. CASE Answer(c, 200) /\ UNCHANGED <<flying, table>>
    <3>1. OnlyOf(c)
      BY <1>1, <1>4, <2>1, <2>4, AnswerOnly, SameCalls DEF OnlyOf, TypeOK, table
    <3>2. FrameOK(c)'
      BY <1>1, <2>4, AnswerOnly DEF FrameOK, Args, table
    <3>3. QED
      BY <1>1, <2>1, <2>4, <3>1, <3>2, AnswerOnly, TypeFrame
      DEF TypeOK, Args, table, Status
  <2>5. QED
    BY <1>1, <1>2, <1>4, <2>3, <2>4, AnswerType, AnswerOnly DEF TypeOK, Status
<1>5. QED
  BY <1>2, <1>3, <1>4

LEMMA CheckDeleteType ==
  ASSUME TypeOK, NEW c \in Calls, CheckDelete(c)
  PROVE  TypeOK'
<1>1. /\ pc[c] = "get" /\ call[c] \in DeleteArgs
      /\ flying[c] = 0 /\ landings[c] = 0 /\ content[c] = Undefined
      /\ record[c] = Undefined /\ c \notin misread
      /\ record' = record /\ content' = content
  BY DEF CheckDelete, At, TypeOK, FrameOK, DecryptArgs, DeleteArgs
<1>2. CASE Answer(c, 404) /\ UNCHANGED <<flying, table>>
  BY <1>1, <1>2, AnswerType DEF Status
<1>3. CASE SendWrite(c)
  <2>1. OnlyOf(c)
    BY <1>1, <1>3, SendWriteOnly, SameCalls DEF OnlyOf
  <2>2. FrameOK(c)'
    BY <1>1, <1>3, SendWriteOnly DEF FrameOK, Args, DeleteArgs
  <2>3. MaxAttempts \in 0 .. MaxAttempts
    BY MessagesAssumption
  <2>4. QED
    BY <1>1, <1>3, <2>1, <2>2, <2>3, SendWriteOnly, TypeFrame DEF TypeOK, Args
<1>4. QED
  BY <1>2, <1>3 DEF CheckDelete

(***************************************************************************)
(* A copy of a write is on its way only for a call that has its write.     *)
(***************************************************************************)
LEMMA InTheAir ==
  ASSUME TypeOK, NEW c \in Calls, flying[c] > 0
  PROVE  /\ pc[c] \in {"write", "answered"} /\ call[c] \in Args
         /\ Target(c) \in Calls
         /\ call[c] \notin DeleteArgs => record[c] \in Record /\ Put(c) \in Record
<1>1. pc[c] \in {"write", "answered"} /\ call[c] \in Args
  BY DEF TypeOK, FrameOK
<1>2. Target(c) \in Calls
  BY <1>1 DEF Target, Args, SendArgs, DecryptArgs, DeleteArgs
<1>3. call[c] \notin DeleteArgs => record[c] \in Record
  BY <1>1 DEF TypeOK, FrameOK, Args, SendArgs, DecryptArgs
<1>4. QED
  BY <1>1, <1>2, <1>3, MarkedReadType DEF Put

LEMMA LandOnly ==
  ASSUME TypeOK, NEW c \in Calls, Land(c)
  PROVE  /\ flying[c] > 0 /\ flying'[c] = flying[c] - 1
         /\ landings'[c] = landings[c] + 1
         /\ pc'[c] \in {"write", "answered"} /\ pc'[c] \in {"answered", pc[c]}
         /\ response'[c] \in {200, response[c]}
         /\ response'[c] # response[c] => pc[c] = "write"
         /\ call' = call /\ record' = record /\ content' = content
         /\ OnlyOf(c)
<1>1. /\ flying[c] > 0 /\ pc[c] \in {"write", "answered"}
      /\ flying' = [flying EXCEPT ![c] = @ - 1]
      /\ landings' = [landings EXCEPT ![c] = @ + 1]
      /\ record' = record /\ content' = content
  BY InTheAir DEF Land
<1>2. /\ flying'[c] = flying[c] - 1 /\ landings'[c] = landings[c] + 1
      /\ flying' = [flying EXCEPT ![c] = flying'[c]]
      /\ landings' = [landings EXCEPT ![c] = landings'[c]]
  BY <1>1 DEF TypeOK
<1>3. CASE pc[c] = "write" /\ Answer(c, 200)
  BY <1>1, <1>2, <1>3, AnswerOnly, SameCalls DEF OnlyOf
<1>4. CASE UNCHANGED <<pc, call, response>>
  BY <1>1, <1>2, <1>4, SameCalls DEF OnlyOf
<1>5. QED
  BY <1>3, <1>4 DEF Land

LEMMA LandType ==
  ASSUME TypeOK, NEW c \in Calls, Land(c)
  PROVE  TypeOK'
<1>2. /\ messages' \in [Calls -> Record \cup {Undefined}]
      /\ written' \subseteq Record
      /\ racing' \in [Calls -> SUBSET [by : Calls, after : Nat]]
      /\ misread' \subseteq misread
  <2>1. CASE call[c].op \in {"send", "decrypt"} /\ LandPut(c)
    <3>1. call[c] \notin DeleteArgs
      BY <2>1 DEF DeleteArgs
    <3>2. QED
      BY <2>1, <3>1, InTheAir, LandOnly DEF LandPut, TypeOK
  <2>2. CASE call[c].op = "delete" /\ LandDelete(c)
    <3>1. {[by |-> d, after |-> landings[d]] : d \in Writers(Target(c))}
            \in SUBSET [by : Calls, after : Nat]
      BY DEF Writers, TypeOK
    <3>2. QED
      BY <2>2, <3>1, InTheAir, LandOnly DEF LandDelete, TypeOK
  <2>3. QED
    BY <2>1, <2>2 DEF Land
<1>5. FrameOK(c)'
  <2>1. FrameOK(c) /\ flying[c] \in Nat /\ landings[c] \in Nat
    BY DEF TypeOK
  <2>2. QED
    BY <1>2, <2>1, LandOnly, InTheAir DEF FrameOK, Args, SendArgs, DecryptArgs, DeleteArgs
<1>3. /\ flying'[c] \in 0 .. MaxAttempts /\ landings'[c] \in Nat
  BY LandOnly, MessagesAssumption DEF TypeOK
<1>4. QED
  BY <1>2, <1>3, <1>5, LandOnly, TypeFrame DEF TypeOK, Status

LEMMA FailType ==
  ASSUME TypeOK, NEW c \in Calls, Fail(c)
  PROVE  TypeOK'
  BY AnswerType DEF Fail, InFlight, Status

(***************************************************************************)
(* Every call has at each await the arguments and the record that await    *)
(* expects, and only well-formed records are stored.                       *)
(***************************************************************************)
THEOREM MessagesTypeCorrect == Spec => []TypeOK
<1>1. Init => TypeOK
  BY MessagesAssumption DEF Init, TypeOK, FrameOK
<1>2. TypeOK /\ [Next]_vars => TypeOK'
  <2> SUFFICES ASSUME TypeOK, [Next]_vars PROVE TypeOK'
    OBVIOUS
  <2>1. ASSUME NEW c \in Calls, Step(c) PROVE TypeOK'
    BY <2>1, EncryptType, ReadRecordType, OpenType, CheckDeleteType, LandType
    DEF Step
  <2>2. ASSUME UNCHANGED vars PROVE TypeOK'
    BY <2>2 DEF vars, handlers, table, TypeOK, FrameOK
  <2>3. QED
    BY <2>1, <2>2, SendType, DecryptType, DeleteType, FailType
    DEF Next, Terminating
<1>3. QED
  BY <1>1, <1>2, PTL DEF Spec

-------------------------------------------------------------------------------
(* The inductive invariant.                                                *)

(***************************************************************************)
(* What a step of call c never takes back.                                 *)
(***************************************************************************)
Grows(c) ==
  /\ pc[c] # "unsent" => call'[c] = call[c]
  /\ content[c] # Undefined => content'[c] = content[c]
  /\ record[c] # Undefined => record'[c] = record[c]
  /\ landings'[c] >= landings[c]
  /\ written \subseteq written'

LEMMA GrowsAll ==
  ASSUME TypeOK, TypeOK', NEW c \in Calls, OnlyOf(c), Grows(c), NEW d \in Calls
  PROVE  /\ pc[d] # "unsent" => call'[d] = call[d]
         /\ content[d] # Undefined => content'[d] = content[d]
         /\ record[d] # Undefined => record'[d] = record[d]
         /\ landings[d] \in Nat /\ landings'[d] \in Nat
         /\ landings'[d] >= landings[d]
<1>1. landings[d] \in Nat /\ landings'[d] \in Nat
  BY DEF TypeOK
<1>2. CASE d = c
  BY <1>1, <1>2 DEF Grows
<1>3. CASE d # c
  BY <1>1, <1>3 DEF OnlyOf, TypeOK
<1>4. QED
  BY <1>2, <1>3

LEMMA OpenedStays ==
  ASSUME TypeOK, TypeOK', NEW c \in Calls, OnlyOf(c), Grows(c),
         NEW m \in Calls, Opened(m)
  PROVE  Opened(m)'
<1>1. PICK d \in Calls :
        call[d] \in DecryptArgs /\ call[d].id = m /\ content[d] # Undefined
  BY DEF Opened
<1>2. pc[d] # "unsent"
  BY <1>1 DEF TypeOK, FrameOK
<1>3. call'[d] = call[d] /\ content'[d] = content[d]
  BY <1>1, <1>2, GrowsAll
<1>4. QED
  BY <1>1, <1>3 DEF Opened

LEMMA VersionStays ==
  ASSUME TypeOK, TypeOK', NEW c \in Calls, OnlyOf(c), Grows(c),
         NEW v \in Record, VersionOK(v)
  PROVE  VersionOK(v)'
<1> DEFINE m == v.messageId
<1>1. m \in Calls
  BY DEF Record
<1>2. landings[m] > 0 /\ pc[m] # "unsent"
  <2>1. landings[m] > 0 /\ FrameOK(m)
    BY <1>1 DEF VersionOK, TypeOK
  <2>2. QED
    BY <2>1 DEF FrameOK
<1>3. call'[m] = call[m] /\ landings'[m] > 0
  BY <1>1, <1>2, GrowsAll
<1>4. Intact(v)'
  BY <1>3 DEF VersionOK, Intact, ContentOf, Unsealed
<1>5. v.status = "read" => Opened(m)'
  BY <1>1, OpenedStays DEF VersionOK
<1>6. QED
  BY <1>3, <1>4, <1>5 DEF VersionOK

(***************************************************************************)
(* A step of c does not touch what another call d holds.                   *)
(***************************************************************************)
LEMMA HeldStays ==
  ASSUME TypeOK, TypeOK', MessagesInv, NEW c \in Calls, OnlyOf(c), Grows(c),
         NEW d \in Calls, d # c
  PROVE  HeldOK(d)'
<1>1. /\ pc'[d] = pc[d] /\ call'[d] = call[d] /\ record'[d] = record[d]
      /\ content'[d] = content[d] /\ response'[d] = response[d]
      /\ flying'[d] = flying[d] /\ landings'[d] = landings[d]
  BY DEF TypeOK, OnlyOf
<1>2. written \subseteq written' /\ HeldOK(d)
  BY DEF Grows, MessagesInv
<1>3. content[d] # Undefined =>
        call'[call[d].id] = call[call[d].id]
  <2>1. SUFFICES ASSUME content[d] # Undefined
                 PROVE  call'[call[d].id] = call[call[d].id]
    OBVIOUS
  <2>2. record[d] \in written /\ record[d].messageId = call[d].id
    BY <1>2, <2>1 DEF HeldOK
  <2>3. landings[call[d].id] > 0 /\ call[d].id \in Calls
    BY <2>2 DEF MessagesInv, VersionOK, TypeOK, Record
  <2>4. pc[call[d].id] # "unsent"
    <3>1. FrameOK(call[d].id)
      BY <2>3 DEF TypeOK
    <3>2. QED
      BY <2>3, <3>1 DEF FrameOK
  <2>5. QED
    BY <2>3, <2>4, GrowsAll
<1>4. call[d] \in SendArgs /\ record[d] # Undefined => record'[d] = NewRecord(d)'
  BY <1>1, <1>2 DEF HeldOK, NewRecord, ContentOf, Seal
<1>5. content[d] # Undefined => content'[d] = ContentOf(call[d].id)'
  BY <1>1, <1>2, <1>3 DEF HeldOK, ContentOf
<1>6. Committed(d)' = Committed(d)
  BY <1>1 DEF Committed
<1>7. QED
  BY <1>1, <1>2, <1>4, <1>5, <1>6 DEF HeldOK

(***************************************************************************)
(* A step that leaves the table alone.                                     *)
(***************************************************************************)
LEMMA QuietRemoved ==
  ASSUME TypeOK, TypeOK', NEW c \in Calls, OnlyOf(c), Grows(c),
         landings' = landings, NEW m \in Calls
  PROVE  Removed(m)' = Removed(m)
<1>1. \A d \in Calls : landings[d] > 0 => call'[d] = call[d]
  <2> SUFFICES ASSUME NEW d \in Calls, landings[d] > 0 PROVE call'[d] = call[d]
    OBVIOUS
  <2>1. FrameOK(d)
    BY DEF TypeOK
  <2>2. pc[d] # "unsent"
    BY <2>1 DEF FrameOK
  <2>3. QED
    BY <2>2, GrowsAll
<1>2. QED
  BY <1>1 DEF Removed

LEMMA RevivedStays ==
  ASSUME TypeOK, TypeOK', NEW c \in Calls, OnlyOf(c), Grows(c), NEW m \in Calls,
         \A d \in misread : call[d].id = m => d \in misread'
  PROVE  Revived(m) => Revived(m)'
<1> SUFFICES ASSUME NEW d \in misread, call[d].id = m, landings[d] > 0
             PROVE  Revived(m)'
  BY DEF Revived
<1>1. d \in Calls /\ FrameOK(d)
  BY DEF TypeOK
<1>2. pc[d] # "unsent"
  BY <1>1 DEF FrameOK
<1>3. call'[d] = call[d] /\ landings'[d] > 0
  BY <1>1, <1>2, GrowsAll
<1>4. QED
  BY <1>3 DEF Revived

(***************************************************************************)
(* A step that stores nothing and forgets nobody who misread.              *)
(***************************************************************************)
LEMMA QuietStep ==
  ASSUME TypeOK, TypeOK', MessagesInv, NEW c \in Calls, OnlyOf(c), Grows(c),
         UNCHANGED <<messages, written, landings, racing>>,
         misread \subseteq misread', HeldOK(c)',
         \A m \in Calls : Removed(m) /\ messages[m] = Undefined
                            => Writers(m)' \subseteq Writers(m) \cup misread'
  PROVE  MessagesInv'
<1>1. /\ landings' = landings /\ messages' = messages
      /\ written' = written /\ racing' = racing
  OBVIOUS
<1>2. \A d \in Calls : HeldOK(d)'
  BY HeldStays
<1>3. \A v \in written' : VersionOK(v)'
  BY <1>1, VersionStays DEF MessagesInv, TypeOK
<1>4. \A m \in Calls : ItemOK(m)'
  <2> SUFFICES ASSUME NEW m \in Calls PROVE ItemOK(m)'
    OBVIOUS
  <2>1. ItemOK(m) /\ Removed(m)' = Removed(m)
    BY <1>1, QuietRemoved DEF MessagesInv
  <2>2. landings[m] > 0 => call'[m] = call[m]
    <3>1. FrameOK(m)
      BY DEF TypeOK
    <3>2. landings[m] > 0 => pc[m] # "unsent"
      BY <3>1 DEF FrameOK
    <3>3. QED
      BY <3>2, GrowsAll
  <2>3. QED
    BY <1>1, <2>1, <2>2 DEF ItemOK
<1>5. \A m \in Calls : AwayOK(m)'
  <2> SUFFICES ASSUME NEW m \in Calls PROVE AwayOK(m)'
    OBVIOUS
  <2>1. AwayOK(m) /\ Removed(m)' = Removed(m)
    BY <1>1, QuietRemoved DEF MessagesInv
  <2>2. BroughtBack(m)' = BroughtBack(m)
    BY <1>1 DEF BroughtBack
  <2>3. Revived(m) => Revived(m)'
    BY RevivedStays
  <2>4. QED
    BY <1>1, <2>1, <2>2, <2>3 DEF AwayOK
<1>6. QED
  BY <1>2, <1>3, <1>4, <1>5 DEF MessagesInv

(***************************************************************************)
(* A step that gives c no record, and starts no write of it.               *)
(***************************************************************************)
LEMMA SameWriters ==
  ASSUME TypeOK, NEW c \in Calls, OnlyOf(c), pc[c] # "unsent" => call'[c] = call[c],
         record'[c] = record[c], flying'[c] > 0 => flying[c] > 0 \/ pc[c] = "kmsDecrypt",
         pc'[c] \in {"kmsDecrypt", "write"} => pc[c] \in {"kmsDecrypt", "write"},
         NEW m \in Calls
  PROVE  Writers(m)' \subseteq Writers(m)
<1> SUFFICES ASSUME NEW d \in Writers(m)' PROVE d \in Writers(m)
  OBVIOUS
<1>1. d \in Calls /\ record'[d] # Undefined /\ Target(d)' = m
      /\ (pc'[d] \in {"kmsDecrypt", "write"} \/ flying'[d] > 0)
  BY DEF Writers
<1>2. CASE d # c
  <2>1. /\ pc'[d] = pc[d] /\ call'[d] = call[d] /\ record'[d] = record[d]
        /\ flying'[d] = flying[d]
    BY <1>1, <1>2 DEF OnlyOf, TypeOK
  <2>2. QED
    BY <1>1, <2>1 DEF Writers, Target
<1>3. CASE d = c
  <2>1. record[c] # Undefined
    BY <1>1, <1>3
  <2>2. pc[c] # "unsent"
    BY <2>1 DEF TypeOK, FrameOK
  <2>3. QED
    BY <1>1, <1>3, <2>1, <2>2 DEF Writers, Target
<1>4. QED
  BY <1>2, <1>3

LEMMA BeginInv ==
  ASSUME TypeOK, TypeOK', MessagesInv, NEW c \in Calls, NEW args,
         NEW await \in {"generateDataKey", "get", "answered"},
         Begin(c, args, await),
         args \in DeleteArgs /\ await = "get" => args.user \in Deleters,
         \/ response' = response
         \/ await = "answered" /\ response' = [response EXCEPT ![c] = 403]
  PROVE  MessagesInv'
<1>1. FrameOK(c) /\ response[c] = Undefined
  BY DEF TypeOK, FrameOK, Begin
<1>2. response' = [response EXCEPT ![c] = response'[c]]
  BY SameCalls DEF TypeOK
<1>3. OnlyOf(c)
  BY <1>2, BeginOnly, SameCalls DEF OnlyOf
<1>4. Grows(c) /\ UNCHANGED table
  BY BeginOnly DEF Grows, table
<1>5. response'[c] = Undefined \/ (response'[c] = 403 /\ pc'[c] = "answered")
  BY <1>1, BeginOnly DEF TypeOK
<1>6. pc'[c] # "write" /\ ~Committed(c)'
  BY BeginOnly DEF Committed
<1>7. HeldOK(c)'
  BY <1>5, <1>6, BeginOnly, UndefinedOutside DEF HeldOK, Status
<1>8. QED
  BY <1>3, <1>4, <1>7, BeginOnly, SameWriters, QuietStep DEF table

LEMMA AnswerInv ==
  ASSUME TypeOK, TypeOK', MessagesInv, NEW c \in Calls,
         pc[c] \notin {"unsent", "answered"},
         NEW status \in Status, Answer(c, status),
         UNCHANGED <<record, content, flying, table>>,
         status = 500 \/ (status \in {400, 404} /\ ~Committed(c))
  PROVE  MessagesInv'
<1>1. OnlyOf(c)
  BY AnswerOnly, SameCalls DEF OnlyOf, table
<1>2. Grows(c)
  BY AnswerOnly DEF Grows, table, TypeOK
<1>3. HeldOK(c)
  BY DEF MessagesInv
<1>4. Committed(c)' => Committed(c)
  BY AnswerOnly DEF Committed, table
<1>5. NewRecord(c)' = NewRecord(c)
  BY AnswerOnly DEF NewRecord, ContentOf
<1>6. ContentOf(call[c].id)' = ContentOf(call[c].id)
  BY AnswerOnly DEF ContentOf
<1>9. /\ call' = call /\ record' = record /\ content' = content
      /\ written' = written /\ landings' = landings
      /\ pc'[c] = "answered" /\ response'[c] = status
      /\ status # 200 /\ (status \in {400, 403, 404} => ~Committed(c))
  BY AnswerOnly DEF table
<1>7. HeldOK(c)'
  BY <1>3, <1>4, <1>5, <1>6, <1>9 DEF HeldOK
<1>8. QED
  BY <1>1, <1>2, <1>7, AnswerOnly, SameWriters, QuietStep DEF table

LEMMA SentCommitted ==
  ASSUME TypeOK, MessagesInv, NEW v \in written
  PROVE  /\ v \in Record /\ v.messageId \in Calls
         /\ call[v.messageId] \in SendArgs
         /\ landings[v.messageId] > 0 /\ pc[v.messageId] # "unsent"
<1>1. v \in Record /\ v.messageId \in Calls /\ VersionOK(v)
  BY DEF TypeOK, Record, MessagesInv
<1>2. FrameOK(v.messageId)
  BY <1>1 DEF TypeOK
<1>3. QED
  BY <1>1, <1>2 DEF VersionOK, Intact, FrameOK

LEMMA EncryptInv ==
  ASSUME TypeOK, TypeOK', MessagesInv, NEW c \in Calls, Encrypt(c)
  PROVE  MessagesInv'
<1>1. /\ pc[c] = "generateDataKey" /\ call[c] \in SendArgs
      /\ flying[c] = 0 /\ landings[c] = 0 /\ content[c] = Undefined
      /\ record[c] = Undefined /\ content' = content
  BY DEF Encrypt, At, TypeOK, FrameOK
<1>2. CASE record' = [record EXCEPT ![c] = NewRecord(c)] /\ SendWrite(c)
  <2>1. record'[c] = NewRecord(c)
    BY <1>2 DEF TypeOK
  <2>2. OnlyOf(c)
    BY <1>1, <1>2, <2>1, SendWriteOnly, SameCalls DEF OnlyOf, TypeOK
  <2>3. Grows(c) /\ UNCHANGED table
    BY <1>1, <1>2, SendWriteOnly DEF Grows, table, TypeOK
  <2>4. NewRecord(c)' = NewRecord(c)
    BY <1>2, SendWriteOnly DEF NewRecord, ContentOf
  <2>5. HeldOK(c) /\ response'[c] = response[c] /\ response[c] = Undefined
    BY <1>1, <1>2, SendWriteOnly DEF MessagesInv, HeldOK
  <2>6. HeldOK(c)'
    BY <1>1, <1>2, <2>1, <2>4, <2>5, SendWriteOnly, UndefinedOutside
    DEF HeldOK, Status, SendArgs, DecryptArgs, DeleteArgs
  <2>7. ASSUME NEW m \in Calls, Removed(m) PROVE Writers(m)' \subseteq Writers(m)
    <3>1. m # c
      <4>1. PICK d \in Calls :
              call[d] \in DeleteArgs /\ call[d].id = m /\ landings[d] > 0
        BY <2>7 DEF Removed
      <4>2. PICK v \in written : v.messageId = m
        BY <4>1 DEF MessagesInv, HeldOK, Committed
      <4>3. QED
        BY <1>1, <4>2, SentCommitted
    <3>2. \A d \in Calls : d # c =>
            /\ pc'[d] = pc[d] /\ call'[d] = call[d] /\ record'[d] = record[d]
            /\ flying'[d] = flying[d]
      BY <2>2 DEF OnlyOf, TypeOK
    <3>3. Target(c)' = c
      BY <1>1, <1>2, SendWriteOnly DEF Target, SendArgs
    <3>4. QED
      BY <3>1, <3>2, <3>3 DEF Writers, Target
  <2>8. QED
    BY <2>2, <2>3, <2>6, <2>7, QuietStep DEF table
<1>3. CASE Answer(c, 500) /\ UNCHANGED <<record, flying, table>>
  BY <1>1, <1>3, AnswerInv DEF Status
<1>4. QED
  BY <1>2, <1>3 DEF Encrypt

LEMMA ReadRecordInv ==
  ASSUME TypeOK, TypeOK', MessagesInv, NEW c \in Calls, ReadRecord(c)
  PROVE  MessagesInv'
<1>1. /\ pc[c] = "get" /\ call[c] \in DecryptArgs /\ record[c] = Undefined
      /\ flying[c] = 0 /\ landings[c] = 0 /\ content[c] = Undefined
      /\ UNCHANGED <<content, flying>>
  BY DEF ReadRecord, At, TypeOK, FrameOK, DecryptArgs, DeleteArgs
<1>2. CASE Answer(c, 404) /\ UNCHANGED <<record, table>>
  BY <1>1, <1>2, AnswerInv DEF Status, Committed
<1>3. ASSUME NEW v \in Views(call[c].id), ReadsRecord(c, v)
      PROVE  MessagesInv'
  <2>1. pc'[c] = "kmsDecrypt" /\ record'[c] = v /\ call[c].id \in Calls
    BY <1>1, <1>3 DEF TypeOK, DecryptArgs, ReadsRecord
  <2>2. v \in written /\ v.messageId = call[c].id
    BY <1>3, <2>1 DEF Views, MessagesInv, ItemOK, ReadsRecord
  <2>3. OnlyOf(c)
    BY <1>1, <1>3, <2>1, SameCalls DEF OnlyOf, ReadsRecord
  <2>4. Grows(c)
    BY <1>1, <1>3 DEF Grows, TypeOK, ReadsRecord
  <2>5. HeldOK(c)'
    <3>1. HeldOK(c) /\ response[c] = Undefined /\ response' = response
      BY <1>1, <1>3 DEF MessagesInv, HeldOK, ReadsRecord
    <3>2. ~Committed(c)'
      BY <1>1, <1>3, <2>1 DEF Committed, ReadsRecord
    <3>3. QED
      BY <1>1, <1>3, <2>1, <2>2, <3>1, <3>2, UndefinedOutside
      DEF HeldOK, Status, SendArgs, DecryptArgs, DeleteArgs, ReadsRecord
  <2>6. ASSUME NEW m \in Calls, messages[m] = Undefined
        PROVE  Writers(m)' \subseteq Writers(m) \cup misread'
    <3>1. call[c].id = m => c \in misread'
      BY <1>3, <2>6 DEF ReadsRecord
    <3>2. \A d \in Calls : d # c =>
            /\ pc'[d] = pc[d] /\ call'[d] = call[d] /\ record'[d] = record[d]
            /\ flying'[d] = flying[d]
      BY <2>3 DEF OnlyOf, TypeOK
    <3>3. Target(c)' = call[c].id
      BY <1>1, <1>3 DEF Target, DecryptArgs, ReadsRecord
    <3>4. QED
      BY <3>1, <3>2, <3>3 DEF Writers, Target
  <2>7. /\ UNCHANGED <<messages, written, landings, racing>>
        /\ misread \subseteq misread'
    BY <1>3 DEF ReadsRecord
  <2>8. QED
    BY <2>3, <2>4, <2>5, <2>6, <2>7, QuietStep
<1>4. QED
  BY <1>2, <1>3, ReadRecordCases

LEMMA OpenInv ==
  ASSUME TypeOK, TypeOK', MessagesInv, NEW c \in Calls, Open(c)
  PROVE  MessagesInv'
<1> DEFINE text ==
      Unsealed(record[c].encryptedPayload, record[c].encryptedDataKey)
<1>1. /\ pc[c] = "kmsDecrypt" /\ call[c] \in DecryptArgs
      /\ flying[c] = 0 /\ landings[c] = 0 /\ content[c] = Undefined
      /\ record[c] \in Record /\ record[c] # Undefined /\ record' = record
  BY DEF Open, At, TypeOK, FrameOK
<1>2. HeldOK(c) /\ record[c] \in written /\ record[c].messageId = call[c].id
  BY <1>1 DEF MessagesInv, HeldOK
<1>3. text = ContentOf(call[c].id)
  BY <1>2 DEF MessagesInv, VersionOK, Intact
<1>4. CASE Answer(c, 500) /\ UNCHANGED <<content, flying, table>>
  BY <1>1, <1>4, AnswerInv DEF Status
<1>5. CASE Answer(c, 400) /\ UNCHANGED <<content, flying, table>>
  BY <1>1, <1>5, AnswerInv DEF Status, Committed
<1>6. CASE text # Undefined /\ content' = [content EXCEPT ![c] = text]
  <2>1. content'[c] = ContentOf(call[c].id) /\ content'[c] # Undefined
    BY <1>3, <1>6 DEF TypeOK
  <2>2. response[c] = Undefined
    BY <1>1, <1>2 DEF HeldOK
  <2>3. CASE record[c].status # "read" /\ SendWrite(c)
    <3>1. OnlyOf(c)
      BY <1>1, <1>6, <2>1, <2>3, SendWriteOnly, SameCalls DEF OnlyOf
    <3>2. Grows(c) /\ UNCHANGED table
      BY <1>1, <1>6, <2>3, SendWriteOnly DEF Grows, table, TypeOK
    <3>3. ContentOf(call[c].id)' = ContentOf(call[c].id)
      BY <2>3, SendWriteOnly DEF ContentOf
    <3>4. HeldOK(c)'
      BY <1>1, <1>2, <2>1, <2>2, <2>3, <3>3, SendWriteOnly, UndefinedOutside
      DEF HeldOK, Status, SendArgs, DecryptArgs, DeleteArgs
    <3>5. QED
      BY <1>1, <2>3, <3>1, <3>2, <3>4, SendWriteOnly, SameWriters, QuietStep DEF table
  <2>4. CASE /\ record[c].status = "read" /\ Answer(c, 200)
             /\ UNCHANGED <<flying, table>>
    <3>1. OnlyOf(c)
      BY <1>1, <1>6, <2>1, <2>4, AnswerOnly, SameCalls DEF OnlyOf, table
    <3>2. Grows(c) /\ UNCHANGED table
      BY <1>1, <1>6, <2>4, AnswerOnly DEF Grows, table, TypeOK
    <3>3. ContentOf(call[c].id)' = ContentOf(call[c].id)
      BY <2>4, AnswerOnly DEF ContentOf
    <3>4. /\ pc'[c] = "answered" /\ response'[c] = 200 /\ call' = call
          /\ landings' = landings /\ written' = written /\ ~Committed(c)'
      BY <1>1, <2>4, AnswerOnly DEF table, Committed
    <3>5. HeldOK(c)'
      BY <1>1, <1>2, <2>1, <2>4, <3>3, <3>4
      DEF HeldOK, SendArgs, DecryptArgs, DeleteArgs
    <3>6. QED
      BY <1>1, <2>4, <3>1, <3>2, <3>5, AnswerOnly, SameWriters, QuietStep DEF table
  <2>5. QED
    BY <1>1, <1>4, <1>5, <1>6, <2>3, <2>4 DEF Open
<1>7. QED
  BY <1>4, <1>5, <1>6 DEF Open

LEMMA CheckDeleteInv ==
  ASSUME TypeOK, TypeOK', MessagesInv, NEW c \in Calls, CheckDelete(c)
  PROVE  MessagesInv'
<1>1. /\ pc[c] = "get" /\ call[c] \in DeleteArgs
      /\ flying[c] = 0 /\ landings[c] = 0 /\ content[c] = Undefined
      /\ record[c] = Undefined /\ record' = record /\ content' = content
  BY DEF CheckDelete, At, TypeOK, FrameOK, DecryptArgs, DeleteArgs
<1>2. PICK v \in Views(call[c].id) :
        \/ v = Undefined /\ Answer(c, 404) /\ UNCHANGED <<flying, table>>
        \/ v # Undefined /\ SendWrite(c)
  BY DEF CheckDelete
<1>3. CASE Answer(c, 404) /\ UNCHANGED <<flying, table>>
  BY <1>1, <1>3, AnswerInv DEF Status, Committed
<1>4. CASE v # Undefined /\ SendWrite(c)
  <2>1. v \in written /\ v.messageId = call[c].id
    BY <1>1, <1>4 DEF Views, MessagesInv, ItemOK, DeleteArgs
  <2>2. OnlyOf(c)
    BY <1>1, <1>4, SendWriteOnly, SameCalls DEF OnlyOf
  <2>3. Grows(c) /\ UNCHANGED table
    BY <1>1, <1>4, SendWriteOnly DEF Grows, table, TypeOK
  <2>4. HeldOK(c) /\ response'[c] = Undefined
    BY <1>1, <1>4, SendWriteOnly DEF MessagesInv, HeldOK
  <2>5. call[c].user \in Deleters
    BY <1>1 DEF HeldOK, MessagesInv
  <2>6. HeldOK(c)'
    BY <1>1, <1>4, <2>1, <2>4, <2>5, SendWriteOnly, UndefinedOutside
    DEF HeldOK, Status, SendArgs, DecryptArgs, DeleteArgs
  <2>7. ASSUME NEW m \in Calls PROVE Writers(m)' \subseteq Writers(m)
    BY <1>1, <1>4, <2>2, SendWriteOnly DEF Writers, Target, OnlyOf, TypeOK
  <2>8. QED
    BY <2>2, <2>3, <2>6, <2>7, QuietStep DEF table
<1>5. QED
  BY <1>2, <1>3, <1>4

(***************************************************************************)
(* What lands.                                                             *)
(***************************************************************************)
LEMMA LandGrows ==
  ASSUME TypeOK, NEW c \in Calls, Land(c)
  PROVE  Grows(c) /\ Target(c) \in Calls
         /\ \A m \in Calls : Writers(m)' \subseteq Writers(m)
<1>1. written \subseteq written'
  BY DEF Land, LandPut, LandDelete
<1>2. Grows(c)
  BY <1>1, LandOnly DEF Grows, TypeOK
<1>3. pc[c] # "unsent" /\ Target(c) \in Calls
  BY LandOnly, InTheAir
<1>4. pc'[c] \in {"kmsDecrypt", "write"} => pc[c] \in {"kmsDecrypt", "write"}
  BY LandOnly
<1>5. QED
  BY <1>2, <1>3, <1>4, LandOnly, SameWriters

LEMMA LandHeld ==
  ASSUME TypeOK, TypeOK', MessagesInv, NEW c \in Calls, Land(c)
  PROVE  HeldOK(c)'
<1>1. HeldOK(c) /\ Committed(c) /\ landings'[c] > 0 /\ written \subseteq written'
  BY LandOnly, LandGrows DEF MessagesInv, Committed, TypeOK, Grows
<1>2. /\ call' = call /\ record' = record /\ content' = content
      /\ pc'[c] \in {"write", "answered"} /\ pc'[c] \in {"answered", pc[c]}
      /\ response'[c] \in {200, response[c]}
  BY LandOnly
<1>3. response'[c] # Undefined => pc'[c] = "answered"
  <2>1. CASE pc[c] = "write" /\ Answer(c, 200)
    BY <2>1, AnswerOnly
  <2>2. CASE UNCHANGED <<pc, call, response>>
    BY <1>1, <2>2 DEF HeldOK
  <2>3. QED
    BY <2>1, <2>2 DEF Land
<1>4. NewRecord(c)' = NewRecord(c) /\ ContentOf(call[c].id)' = ContentOf(call[c].id)
  BY <1>2 DEF NewRecord, ContentOf
<1>5. response[c] \notin {400, 403, 404}
  BY <1>1 DEF HeldOK
<1>6. call[c] \in DecryptArgs => MarkedRead(record[c]) \in written'
  <2>1. CASE LandPut(c)
    BY <2>1 DEF LandPut, Put, DecryptArgs
  <2>2. CASE call[c].op = "delete"
    BY <2>2 DEF DecryptArgs
  <2>3. QED
    BY <2>1, <2>2 DEF Land
<1>7. QED
  BY <1>1, <1>2, <1>3, <1>4, <1>5, <1>6 DEF HeldOK

LEMMA LandedPut ==
  ASSUME TypeOK, TypeOK', MessagesInv, NEW c \in Calls, Land(c),
         call[c].op \in {"send", "decrypt"}, LandPut(c), NEW v, v = Put(c)
  PROVE  /\ v \in Record /\ v.messageId = Target(c)
         /\ v.status = "unread" => call[c] \in SendArgs /\ Target(c) = c
         /\ v.status \in {"unread", "read"}
         /\ VersionOK(v)'
<1>1. /\ call[c] \in SendArgs \cup DecryptArgs /\ record[c] \in Record
      /\ v \in Record /\ HeldOK(c) /\ Committed(c)
  BY LandOnly, InTheAir DEF Args, DeleteArgs, MessagesInv, Committed
<1>2. call' = call /\ content' = content /\ OnlyOf(c) /\ Grows(c)
  BY LandOnly, LandGrows
<1>3. CASE call[c] \in SendArgs
  <2>1. v = NewRecord(c) /\ Target(c) = c
    BY <1>1, <1>3, UndefinedOutside DEF Put, HeldOK, Target, SendArgs
  <2>2. landings'[c] > 0
    BY LandOnly DEF TypeOK
  <2>3. ContentOf(c)' = ContentOf(c)
    BY <1>2 DEF ContentOf
  <2>4. v.messageId = c /\ v.status = "unread" /\ Intact(v)'
    BY <1>2, <1>3, <2>1, <2>3, NewRecordType DEF Intact
  <2>5. VersionOK(v)'
    BY <2>2, <2>4 DEF VersionOK
  <2>6. QED
    BY <1>1, <1>3, <2>1, <2>4, <2>5
<1>4. CASE call[c] \in DecryptArgs
  <2>1. PICK r \in Record : r = record[c]
    BY <1>1
  <2>2. /\ v = MarkedRead(r) /\ Target(c) = call[c].id /\ call[c].id \in Calls
        /\ r \in written /\ r.messageId = call[c].id
        /\ content[c] # Undefined
    BY <1>1, <1>4, <2>1, UndefinedOutside DEF Put, HeldOK, Target, DecryptArgs
  <2>3. VersionOK(r)'
    BY <1>2, <2>1, <2>2, VersionStays DEF MessagesInv
  <2>4. v.messageId = r.messageId /\ v.status = "read"
    BY <2>1, <2>2, MarkedReadType
  <2>5. Opened(v.messageId)'
    BY <1>2, <1>4, <2>2, <2>4 DEF Opened
  <2>6. VersionOK(v)'
    BY <2>1, <2>2, <2>3, <2>4, <2>5, MarkedReadType DEF VersionOK, Intact
  <2>7. QED
    BY <1>1, <2>2, <2>4, <2>6
<1>5. QED
  BY <1>1, <1>3, <1>4

LEMMA LandPutInv ==
  ASSUME TypeOK, TypeOK', MessagesInv, NEW c \in Calls, Land(c),
         call[c].op \in {"send", "decrypt"}, LandPut(c)
  PROVE  MessagesInv'
<1>1. PICK v : v = Put(c)
  OBVIOUS
<1>2. PICK t \in Calls : t = Target(c)
  BY LandGrows
<1>3. /\ messages' = [messages EXCEPT ![t] = v] /\ written' = written \cup {v}
      /\ racing' = racing /\ misread' = misread /\ call' = call
      /\ landings'[c] = landings[c] + 1 /\ OnlyOf(c) /\ Grows(c)
      /\ flying[c] > 0 /\ record[c] \in Record /\ c \in Writers(t)
  BY <1>1, <1>2, LandOnly, LandGrows, InTheAir, UndefinedOutside
  DEF LandPut, DeleteArgs, Writers
<1>4. /\ v \in Record /\ v.messageId = t /\ v # Undefined
      /\ v.status = "unread" => call[c] \in SendArgs /\ t = c
      /\ v.status \in {"unread", "read"}
      /\ VersionOK(v)'
  BY <1>1, <1>2, LandedPut, UndefinedOutside
<1>5. call[c] \notin DeleteArgs
  BY DEF DeleteArgs
<1>6. \A d \in Calls : d # c => landings'[d] = landings[d]
  BY <1>3 DEF OnlyOf, TypeOK
<1>7. landings[c] \in Nat /\ \A d \in Calls : landings'[d] >= landings[d]
  BY <1>3, <1>6, GrowsAll DEF TypeOK
<1>8. \A d \in Calls : HeldOK(d)'
  BY <1>3, LandHeld, HeldStays
<1>9. \A w \in written' : VersionOK(w)'
  BY <1>3, <1>4, VersionStays DEF MessagesInv, TypeOK
<1>10. \A m \in Calls : Removed(m)' = Removed(m)
  BY <1>3, <1>5, <1>6 DEF Removed
<1>11. ASSUME NEW m \in Calls PROVE ItemOK(m)'
  <2>1. ItemOK(m) /\ Removed(m)' = Removed(m)
    BY <1>10 DEF MessagesInv
  <2>2. CASE m # t
    <3>1. messages'[m] = messages[m]
      BY <1>3, <2>2 DEF TypeOK
    <3>2. call[m] \in SendArgs /\ landings'[m] > 0 => landings[m] > 0
      BY <1>2, <1>6, <2>2 DEF Target, SendArgs
    <3>3. \A w \in written' : w.messageId = m => w \in written
      BY <1>3, <1>4, <2>2
    <3>4. landings'[m] >= landings[m] /\ landings[m] \in Nat /\ landings'[m] \in Nat
      BY <1>7 DEF TypeOK
    <3>5. QED
      BY <1>3, <2>1, <3>1, <3>2, <3>3, <3>4 DEF ItemOK
  <2>3. CASE m = t
    <3>1. messages'[m] = v
      BY <1>3, <2>3 DEF TypeOK
    <3>2. ASSUME v.status = "unread",
                 NEW w \in written', w.messageId = m, w.status = "read"
          PROVE  landings'[m] >= 2
      <4>1. w \in written /\ m = c
        BY <1>3, <1>4, <2>3, <3>2
      <4>2. landings[c] > 0
        BY <3>2, <4>1, SentCommitted
      <4>3. QED
        BY <1>3, <1>7, <4>1, <4>2
    <3>3. QED
      BY <1>3, <1>4, <2>3, <3>1, <3>2 DEF ItemOK
  <2>4. QED
    BY <2>2, <2>3
<1>12. ASSUME NEW m \in Calls PROVE AwayOK(m)'
  <2>1. AwayOK(m) /\ Removed(m)' = Removed(m)
    BY <1>10, <1>12 DEF MessagesInv
  <2>2. racing[m] \in SUBSET [by : Calls, after : Nat]
    BY DEF TypeOK
  <2>3. BroughtBack(m) => BroughtBack(m)'
    BY <1>3, <1>7, <2>2 DEF BroughtBack, TypeOK
  <2>6. Revived(m) => Revived(m)'
    BY <1>3, RevivedStays
  <2>4. CASE /\ messages[m] = Undefined
             /\ \A d \in Writers(m) :
                  \/ d \in misread
                  \/ \E w \in racing[m] : w.by = d /\ w.after <= landings[d]
    <3>4. CASE m = t /\ c \in misread
      <4>1. call[c].id = m /\ landings'[c] > 0
        BY <1>2, <1>3, <1>7, <3>4 DEF Target, TypeOK, FrameOK, DecryptArgs
      <4>2. QED
        BY <1>3, <3>4, <4>1 DEF AwayOK, Revived
    <3>1. CASE m = t /\ c \notin misread
      <4>1. PICK w \in racing[m] : w.by = c /\ w.after <= landings[c]
        BY <1>3, <2>4, <3>1
      <4>2. landings'[w.by] > w.after
        BY <1>3, <1>7, <2>2, <4>1
      <4>3. QED
        BY <1>3, <4>2 DEF AwayOK, BroughtBack
    <3>2. CASE m # t
      <4>1. messages'[m] = Undefined
        BY <1>3, <2>4, <3>2 DEF TypeOK
      <4>2. ASSUME NEW d \in Writers(m)', d \notin misread
            PROVE  \E w \in racing[m] : w.by = d /\ w.after <= landings'[d]
        <5>1. d \in Writers(m) /\ d \in Calls
          BY <4>2, LandGrows DEF Writers
        <5>2. PICK w \in racing[m] : w.by = d /\ w.after <= landings[d]
          BY <2>4, <4>2, <5>1
        <5>3. QED
          BY <1>7, <2>2, <5>1, <5>2 DEF TypeOK
      <4>3. QED
        BY <1>3, <4>1, <4>2 DEF AwayOK
    <3>3. QED
      BY <3>1, <3>2, <3>4
  <2>5. QED
    BY <2>1, <2>3, <2>4, <2>6 DEF AwayOK
<1>13. QED
  BY <1>8, <1>9, <1>11, <1>12 DEF MessagesInv

LEMMA LandDeleteInv ==
  ASSUME TypeOK, TypeOK', MessagesInv, NEW c \in Calls, Land(c),
         call[c].op = "delete", LandDelete(c)
  PROVE  MessagesInv'
<1>1. PICK t \in Calls : t = Target(c)
  BY LandGrows
<1>2. /\ messages' = [messages EXCEPT ![t] = Undefined] /\ written' = written
      /\ racing' = [racing EXCEPT ![t] =
                      {[by |-> d, after |-> landings[d]] : d \in Writers(t)}]
      /\ misread' = {d \in misread : call[d].id # t}
      /\ call' = call /\ OnlyOf(c) /\ Grows(c)
      /\ landings'[c] = landings[c] + 1
  BY <1>1, LandOnly, LandGrows DEF LandDelete
<1>3. call[c] \in DeleteArgs /\ t = call[c].id
  BY <1>1, LandOnly, InTheAir DEF Args, SendArgs, DecryptArgs, Target
<1>4. \A d \in Calls : d # c => landings'[d] = landings[d]
  BY <1>2 DEF OnlyOf, TypeOK
<1>5. landings[c] \in Nat /\ \A d \in Calls : landings'[d] >= landings[d]
  BY <1>2, <1>4, GrowsAll DEF TypeOK
<1>6. \A d \in Calls : HeldOK(d)'
  BY <1>2, LandHeld, HeldStays
<1>7. \A w \in written' : VersionOK(w)'
  BY <1>2, VersionStays DEF MessagesInv, TypeOK
<1>8. \A m \in Calls : (Removed(m) => Removed(m)') /\ (m # t => Removed(m)' = Removed(m))
  BY <1>2, <1>3, <1>4, <1>5 DEF Removed, TypeOK
<1>9. Removed(t)'
  BY <1>2, <1>3, <1>5 DEF Removed
<1>10. ASSUME NEW m \in Calls PROVE ItemOK(m)'
  <2>1. ItemOK(m)
    BY DEF MessagesInv
  <2>2. CASE m = t
    <3>1. messages'[m] = Undefined
      BY <1>2, <2>2 DEF TypeOK
    <3>2. QED
      BY <1>9, <2>2, <3>1 DEF ItemOK
  <2>3. CASE m # t
    <3>1. messages'[m] = messages[m]
      BY <1>2, <2>3 DEF TypeOK
    <3>2. call[m] \in SendArgs => landings'[m] = landings[m]
      BY <1>3, <1>4 DEF SendArgs, DeleteArgs
    <3>3. landings'[m] >= landings[m] /\ landings[m] \in Nat /\ landings'[m] \in Nat
      BY <1>5 DEF TypeOK
    <3>4. QED
      BY <1>2, <1>8, <2>1, <2>3, <3>1, <3>2, <3>3 DEF ItemOK
  <2>4. QED
    BY <2>2, <2>3
<1>11. ASSUME NEW m \in Calls PROVE AwayOK(m)'
  <2>1. AwayOK(m) /\ racing[m] \in SUBSET [by : Calls, after : Nat]
    BY <1>11 DEF MessagesInv, TypeOK
  <2>2. Writers(m)' \subseteq Writers(m) /\ Writers(m) \subseteq Calls
    BY LandGrows DEF Writers
  <2>3. CASE m = t
    <3>1. /\ messages'[m] = Undefined
          /\ racing'[m] = {[by |-> d, after |-> landings[d]] : d \in Writers(m)}
      BY <1>2, <2>3 DEF TypeOK
    <3>2. \A d \in Writers(m)' :
            \E w \in racing'[m] : w.by = d /\ w.after <= landings'[d]
      <4> SUFFICES ASSUME NEW d \in Writers(m)'
                   PROVE  \E w \in racing'[m] : w.by = d /\ w.after <= landings'[d]
        OBVIOUS
      <4>1. [by |-> d, after |-> landings[d]] \in racing'[m]
        BY <2>2, <3>1
      <4>2. landings[d] <= landings'[d]
        BY <1>5, <2>2 DEF TypeOK
      <4>3. QED
        BY <4>1, <4>2
    <3>3. QED
      BY <3>1, <3>2 DEF AwayOK
  <2>4. CASE m # t
    <3>1. /\ messages'[m] = messages[m] /\ racing'[m] = racing[m]
          /\ Removed(m)' = Removed(m)
      BY <1>2, <1>8, <2>4 DEF TypeOK
    <3>2. BroughtBack(m) => BroughtBack(m)'
      BY <1>5, <2>1, <3>1 DEF BroughtBack, TypeOK
    <3>5. Revived(m) => Revived(m)'
      BY <1>2, <2>4, RevivedStays
    <3>6. \A d \in Writers(m) : d \in misread => d \in misread'
      <4> SUFFICES ASSUME NEW d \in Writers(m), d \in misread PROVE d \in misread'
        OBVIOUS
      <4>1. Target(d) = m /\ d \in Calls /\ FrameOK(d)
        BY DEF Writers, TypeOK
      <4>2. call[d].id = m
        BY <4>1 DEF Target, FrameOK, DecryptArgs
      <4>3. QED
        BY <1>2, <2>4, <4>2
    <3>3. \A d \in Writers(m) :
             (\E w \in racing[m] : w.by = d /\ w.after <= landings[d])
               => (\E w \in racing'[m] : w.by = d /\ w.after <= landings'[d])
      BY <1>5, <2>1, <2>2, <3>1 DEF TypeOK
    <3>4. QED
      BY <2>1, <2>2, <3>1, <3>2, <3>3, <3>5, <3>6 DEF AwayOK
  <2>5. QED
    BY <2>3, <2>4
<1>12. QED
  BY <1>6, <1>7, <1>10, <1>11 DEF MessagesInv

(***************************************************************************)
(* The inductive invariant: what every call holds of a message, what every *)
(* version says, and what may still bring a removed message back.          *)
(***************************************************************************)
THEOREM MessagesInvHolds == Spec => []MessagesInv
<1>1. Init => MessagesInv
  BY UndefinedOutside
  DEF Init, MessagesInv, HeldOK, ItemOK, AwayOK, Removed, Committed, Status
<1>2. TypeOK /\ TypeOK' /\ MessagesInv /\ [Next]_vars => MessagesInv'
  <2> SUFFICES ASSUME TypeOK, TypeOK', MessagesInv, [Next]_vars
               PROVE  MessagesInv'
    OBVIOUS
  <2>1. ASSUME NEW c \in Calls, Send(c) PROVE MessagesInv'
    BY <2>1, BeginInv DEF Send, DeleteArgs
  <2>2. ASSUME NEW c \in Calls, Decrypt(c) PROVE MessagesInv'
    BY <2>2, BeginInv DEF Decrypt, DeleteArgs
  <2>3. ASSUME NEW c \in Calls, Delete(c) PROVE MessagesInv'
    <3>1. PICK person \in Person, id \in Calls :
            LET args == [op |-> "delete", user |-> person, id |-> id] IN
            \/ person \in Deleters /\ Begin(c, args, "get") /\ UNCHANGED response
            \/ /\ person \notin Deleters /\ Begin(c, args, "answered")
               /\ response' = [response EXCEPT ![c] = 403]
      BY <2>3 DEF Delete
    <3>2. QED
      BY <3>1, BeginInv
  <2>4. ASSUME NEW c \in Calls, Land(c) PROVE MessagesInv'
    BY <2>4, LandPutInv, LandDeleteInv DEF Land
  <2>5. ASSUME NEW c \in Calls, Fail(c) PROVE MessagesInv'
    BY <2>5, AnswerInv DEF Fail, InFlight, Status
  <2>6. ASSUME UNCHANGED vars PROVE MessagesInv'
    <3>1. \A c \in Calls : HeldOK(c)'
      BY <2>6 DEF vars, handlers, table, MessagesInv, HeldOK, Committed,
                  NewRecord, ContentOf, Seal
    <3>2. \A v \in written' : VersionOK(v)'
      BY <2>6 DEF vars, handlers, table, MessagesInv, VersionOK, Intact,
                  ContentOf, Opened
    <3>3. \A m \in Calls : ItemOK(m)' /\ (AwayOK(m) => AwayOK(m)')
      BY <2>6 DEF vars, handlers, table, MessagesInv, ItemOK, AwayOK, Removed,
                  BroughtBack, Revived, Writers, Target
    <3>4. QED
      BY <3>1, <3>2, <3>3 DEF MessagesInv
  <2>7. QED
    BY <2>1, <2>2, <2>3, <2>4, <2>5, <2>6, EncryptInv, ReadRecordInv, OpenInv,
       CheckDeleteInv DEF Next, Step, Terminating
<1>3. QED
  BY <1>1, <1>2, MessagesTypeCorrect, PTL DEF Spec

(***************************************************************************)
(* Every version of a message opens to what its sender sent, and so does   *)
(* what a reader was given, however many times it was put back.            *)
(***************************************************************************)
THEOREM ContentIntactHolds == Spec => []ContentIntact
<1>1. TypeOK /\ MessagesInv => ContentIntact
  <2> SUFFICES ASSUME TypeOK, MessagesInv PROVE ContentIntact
    OBVIOUS
  <2>1. \A v \in written : Intact(v)
    BY DEF MessagesInv, VersionOK
  <2>2. ASSUME NEW c \in Calls, content[c] # Undefined
        PROVE  call[call[c].id] \in SendArgs /\ content[c] = ContentOf(call[c].id)
    <3>1. HeldOK(c)
      BY DEF MessagesInv
    <3>2. record[c] \in written /\ record[c].messageId = call[c].id
      BY <2>2, <3>1 DEF HeldOK
    <3>3. QED
      BY <2>2, <3>1, <3>2, SentCommitted DEF HeldOK
  <2>3. QED
    BY <2>1, <2>2 DEF ContentIntact
<1>2. QED
  BY <1>1, MessagesTypeCorrect, MessagesInvHolds, PTL

(***************************************************************************)
(* No message is marked read that nobody opened, and no reader is told 200 *)
(* of a message not opened and marked.                                     *)
(***************************************************************************)
THEOREM ReadMeansOpenedHolds == Spec => []ReadMeansOpened
<1>1. TypeOK /\ MessagesInv => ReadMeansOpened
  <2> SUFFICES ASSUME TypeOK, MessagesInv PROVE ReadMeansOpened
    OBVIOUS
  <2>1. ASSUME NEW v \in written, v.status = "read" PROVE Opened(v.messageId)
    BY <2>1 DEF MessagesInv, VersionOK
  <2>2. ASSUME NEW c \in Calls, call[c] \in DecryptArgs, response[c] = 200
        PROVE  /\ content[c] # Undefined
               /\ \E v \in written : v.messageId = call[c].id /\ v.status = "read"
    <3>1. HeldOK(c) /\ content[c] # Undefined
      BY <2>2 DEF MessagesInv, HeldOK, Committed
    <3>2. record[c] \in written /\ record[c].messageId = call[c].id
      BY <2>2, <3>1 DEF HeldOK
    <3>3. landings[c] > 0 => MarkedRead(record[c]) \in written
      BY <2>2, <3>1 DEF HeldOK
    <3>4. QED
      BY <2>2, <3>1, <3>2, <3>3, MarkedReadType DEF HeldOK, TypeOK
  <2>3. QED
    BY <2>1, <2>2 DEF ReadMeansOpened
<1>2. QED
  BY <1>1, MessagesTypeCorrect, MessagesInvHolds, PTL

(***************************************************************************)
(* A message read is unread again only when its send was delivered twice.  *)
(***************************************************************************)
THEOREM UnreadAgainHolds == Spec => []UnreadAgainOnlyByRepeat
<1>1. MessagesInv => UnreadAgainOnlyByRepeat
  BY DEF MessagesInv, ItemOK, UnreadAgainOnlyByRepeat
<1>2. QED
  BY <1>1, MessagesInvHolds, PTL

(***************************************************************************)
(* A removed message is back only by a call that could still put it when   *)
(* it was removed, or by a decrypt that read it too late.                  *)
(***************************************************************************)
THEOREM BackOnlyHolds == Spec => []BackOnlyFromCopies
<1>1. MessagesInv => BackOnlyFromCopies
  BY DEF MessagesInv, AwayOK, BackOnlyFromCopies
<1>2. QED
  BY <1>1, MessagesInvHolds, PTL

(***************************************************************************)
(* The answers are true of the writes, whatever the SDK repeats.           *)
(***************************************************************************)
THEOREM MessageAnswersHold == Spec => []AnswersAreHonest
<1>1. TypeOK /\ MessagesInv => AnswersAreHonest
  <2> SUFFICES ASSUME TypeOK, MessagesInv, NEW c \in Calls
               PROVE  /\ response[c] \in {400, 403, 404} =>
                           landings[c] = 0 /\ flying[c] = 0
                      /\ response[c] = 200 /\ call[c].op # "decrypt" => landings[c] > 0
                      /\ response[c] = 200 /\ call[c].op = "send" =>
                           messages[c] # Undefined \/ Removed(c)
                      /\ call[c] \in DeleteArgs /\ landings[c] > 0 =>
                           /\ call[c].user \in Deleters
                           /\ \E v \in written : v.messageId = call[c].id
    BY DEF AnswersAreHonest
  <2>1. HeldOK(c) /\ ItemOK(c) /\ FrameOK(c)
        /\ landings[c] \in Nat /\ flying[c] \in Nat
    BY DEF MessagesInv, TypeOK
  <2>2. response[c] \in {400, 403, 404} => landings[c] = 0 /\ flying[c] = 0
    BY <2>1 DEF HeldOK, Committed
  <2>3. response[c] = 200 /\ call[c].op # "decrypt" => landings[c] > 0
    BY <2>1 DEF HeldOK, DecryptArgs
  <2>4. ASSUME response[c] = 200, call[c].op = "send"
        PROVE  messages[c] # Undefined \/ Removed(c)
    <3>1. landings[c] > 0
      BY <2>3, <2>4
    <3>2. call[c] \in SendArgs
      BY <2>1, <2>4, <3>1 DEF FrameOK, Args, DecryptArgs, DeleteArgs
    <3>3. QED
      BY <2>1, <3>1, <3>2 DEF ItemOK
  <2>5. QED
    BY <2>1, <2>2, <2>3, <2>4 DEF HeldOK, Committed
<1>2. QED
  BY <1>1, MessagesTypeCorrect, MessagesInvHolds, PTL
===============================================================================
