------------------------------- MODULE TextSending -------------------------------
(***************************************************************************)
(* Writing and sending a text: what modules/ComposeText collects, and what *)
(* modules/MessageSender does with it, or with the reply of a conversation:*)
(* it has modules/NumberValidate check the numbers, and sends one request  *)
(* to all extensions and then one to each phone number, after each other.  *)
(* Several sends may be under way; they share one status.                  *)
(*                                                                         *)
(* A number is what the user wrote; what the parser makes of it, Parsed,   *)
(* is the number in its normal form, or the reason it cannot be one.       *)
(***************************************************************************)
EXTENDS Naturals, Sequences, FiniteSets, Functions

CONSTANTS
  Number,
  Parsed,      \* [Number -> Target \cup Complaint], external
  Phone,       \* normal forms that are phone numbers
  Extension,   \* and extensions
  Replied,     \* sets of numbers a conversation may be with
  Contact,     \* ids of entities one may choose a number of
  MaxSends,    \* bound: sends at a time
  MaxEdits     \* bound: what the user does to the form

\* Complaints of validateFormat, of the number parser, and of isCompanyExtension.
Malformed  == {"noToNumber", "noAreaCode"}
Unparsable == {"specialNumber", "notAnExtension"}
Foreign    == {"notInCompany"}
Target     == Phone \cup Extension

VARIABLES
  toNumbers,      \* of ComposeText
  typingToNumber, \* at most one
  text,           \* "ok" or why not
  validSender,    \* senderNumber is one of senderNumbersList
  sendStatus,     \* of MessageSender
  sends,          \* calls of send under way
  last,           \* history: how the call that ended last has ended
  edits

form == <<toNumbers, typingToNumber, text, validSender>>
vars == <<form, sendStatus, sends, last, edits>>

Recipient == [id : Contact \cup {"none"}, number : Number]
Send == [n : 1..MaxSends, at : {"parser", "pager", "sms"}, asked : SUBSET Number,
         validSender : BOOLEAN, rest : Seq(Target), sent : Seq(Target)]

\* The result: what send returns, null, or what it throws.
Outcome == [asked : SUBSET Number, validSender : BOOLEAN, sent : Seq(Target),
            result : {"responses", "null", "error"}]

TypeOK ==
  /\ toNumbers \in Seq(Recipient)
  /\ typingToNumber \subseteq Number
  /\ text \in {"ok", "textEmpty", "textTooLong"} /\ validSender \in BOOLEAN
  /\ sendStatus \in {"idle", "validating", "sending"}
  /\ sends \subseteq Send
  /\ last \in Outcome
  /\ edits \in 0..MaxEdits

Init ==
  /\ toNumbers = <<>> /\ typingToNumber = {}
  /\ text = "textEmpty" /\ validSender \in BOOLEAN
  /\ sendStatus = "idle" /\ sends = {}
  /\ last = [asked |-> {}, validSender |-> FALSE, sent |-> <<>>, result |-> "null"]
  /\ edits = 0

-----------------------------------------------------------------------------
(* ComposeText: the form. *)

Edit == edits < MaxEdits /\ edits' = edits + 1 /\ UNCHANGED <<sendStatus, sends, last>>

Numbers(recipients) == {r.number : r \in Range(recipients)}

\* getToNumbers.  A recipient with an id takes the place of the first of the same id or
\* number; one without is not added twice.
Added(r) ==
  LET same == {i \in DOMAIN toNumbers :
                 \/ r.id # "none" /\ toNumbers[i].id = r.id
                 \/ toNumbers[i].number = r.number}
  IN IF same = {} THEN Append(toNumbers, r)
     ELSE IF r.id = "none" THEN toNumbers
     ELSE [toNumbers EXCEPT ![CHOOSE i \in same : \A j \in same : i <= j] = r]

\* addToNumber, and addToRecipients, which cleans what was typed.
AddToNumber(r, clean) ==
  /\ Edit
  /\ Parsed[r.number] \notin Malformed
  /\ toNumbers' = Added(r)
  /\ typingToNumber' = IF clean THEN {} ELSE typingToNumber
  /\ UNCHANGED <<text, validSender>>

\* The others stay in their order.
RemoveToNumber(r) ==
  LET kept == {i \in DOMAIN toNumbers : toNumbers[i].number # r.number}
      n    == Cardinality(kept)
  IN
  /\ Edit
  /\ \E place \in [1..n -> kept] :
       /\ \A i, j \in 1..n : i < j => place[i] < place[j]
       /\ toNumbers' = [i \in 1..n |-> toNumbers[place[i]]]
  /\ UNCHANGED <<typingToNumber, text, validSender>>

UpdateTypingToNumber(n) ==
  /\ Edit
  /\ typingToNumber' = {n}
  /\ UNCHANGED <<toNumbers, text, validSender>>

\* updateMessageText takes no text that is too long; a reply may be.
UpdateMessageText ==
  /\ Edit
  /\ text' \in {"ok", "textEmpty"}
  /\ UNCHANGED <<toNumbers, typingToNumber, validSender>>

UpdateSenderNumber ==
  /\ Edit
  /\ validSender' \in BOOLEAN
  /\ UNCHANGED <<toNumbers, typingToNumber, text>>

Clean ==
  /\ Edit
  /\ toNumbers' = <<>> /\ typingToNumber' = {} /\ text' = "textEmpty"
  /\ UNCHANGED validSender

-----------------------------------------------------------------------------
(* MessageSender. *)

Ends(s, result) ==
  last' = [asked |-> s.asked, validSender |-> s.validSender, sent |-> s.sent, result |-> result]

NewSend(asked, sender) ==
  [n |-> CHOOSE n \in 1..MaxSends : \A s \in sends : s.n # n, at |-> "parser",
   asked |-> asked, validSender |-> sender, rest |-> <<>>, sent |-> <<>>]

\* _validateText, _validateToNumbers with validateFormat, up to the request of the parser.
Begins(asked, sender, body) ==
  LET s == NewSend(asked, sender) IN
  /\ Cardinality(sends) < MaxSends
  /\ IF body # "ok" \/ asked = {}
     THEN Ends(s, "null") /\ UNCHANGED <<sendStatus, sends>>
     ELSE IF \E n \in asked : Parsed[n] \in Malformed
     THEN Ends(s, "null") /\ sendStatus' = "idle" /\ UNCHANGED sends
     ELSE sendStatus' = "validating" /\ sends' = sends \cup {s} /\ UNCHANGED last

\* send of ComposeText, with what is typed; a number that is not one ends it at once.
SendComposed ==
  /\ \A n \in typingToNumber : Parsed[n] \notin Malformed
  /\ Begins(Numbers(toNumbers) \cup typingToNumber, validSender, text)
  /\ UNCHANGED <<form, edits>>

\* replyToReceivers of a conversation.
SendReply ==
  /\ \E asked \in Replied, body \in {"ok", "textTooLong"} : Begins(asked, TRUE, body)
  /\ UNCHANGED <<form, edits>>

Accepted_AnySender(s) == \A n \in s.asked : Parsed[n] \in Target
\* Once the parser has answered: each number is one, and a phone number asks for a sender.
Accepted(s) ==
  /\ \A n \in s.asked : Parsed[n] \in Target
  /\ (\E n \in s.asked : Parsed[n] \in Phone) => s.validSender

\* The order of the requests: extensions are one, then the phone numbers as they come.
Orders(s) ==
  LET e == {Parsed[n] : n \in s.asked} \cap Extension
      p == {n \in s.asked : Parsed[n] \in Phone}
      In(S) == Bijection(1..Cardinality(S), S)
  IN {one \o [i \in DOMAIN o |-> Parsed[o[i]]] : one \in In(e), o \in In(p)}

NumbersParsed(s) ==
  /\ s.at = "parser"
  /\ IF Accepted(s)
     THEN /\ sendStatus' = "sending"
          /\ \E order \in Orders(s) :
               sends' = (sends \ {s}) \cup {[s EXCEPT !.rest = order, !.at =
                 IF \E n \in s.asked : Parsed[n] \in Extension THEN "pager" ELSE "sms"]}
          /\ UNCHANGED last
     ELSE /\ sendStatus' = "idle"
          /\ sends' = sends \ {s}
          /\ Ends(s, "null")
  /\ UNCHANGED <<form, edits>>

\* How many of the rest one request is for.
Addressed(s) ==
  IF s.at = "pager" THEN Cardinality(Range(s.rest) \cap Extension) ELSE 1

\* _sendPager or _sendSms has its response.
Sent(s) ==
  LET k == Addressed(s)
      next == [s EXCEPT !.at = "sms", !.sent = @ \o SubSeq(s.rest, 1, k),
                        !.rest = SubSeq(@, k + 1, Len(@))]
  IN
  /\ s.at # "parser"
  /\ IF next.rest = <<>>
     THEN sends' = sends \ {s} /\ sendStatus' = "idle" /\ Ends(next, "responses")
     ELSE sends' = (sends \ {s}) \cup {next} /\ UNCHANGED <<sendStatus, last>>
  /\ UNCHANGED <<form, edits>>

\* One of the requests fails: sendError, and what was sent before stays sent.
Fails(s) ==
  /\ sends' = sends \ {s}
  /\ sendStatus' = "idle"
  /\ Ends(s, "error")
  /\ UNCHANGED <<form, edits>>

Next ==
  \/ \E r \in Recipient, clean \in BOOLEAN : AddToNumber(r, clean)
  \/ \E r \in Range(toNumbers) : RemoveToNumber(r)
  \/ \E n \in Number : UpdateTypingToNumber(n)
  \/ UpdateMessageText \/ UpdateSenderNumber \/ Clean
  \/ SendComposed \/ SendReply
  \/ \E s \in sends : NumbersParsed(s) \/ Sent(s) \/ Fails(s)

Spec == Init /\ [][Next]_vars

-----------------------------------------------------------------------------
(* What a send says is what was done: it has responses only when each recipient has the *)
(* text, once for each way its number was written in; null only when nobody has it,     *)
(* whatever was wrong with which of several; when it fails those who have it are the    *)
(* first, extensions before phones.  Nobody has it who was not asked for, or because    *)
(* all of them could have it.  The status is idle when nothing is under way.             *)
SendTells ==
  LET has(t)  == Cardinality({i \in DOMAIN last.sent : last.sent[i] = t})
      asks(t) == IF t \in Extension THEN Cardinality({Parsed[n] : n \in last.asked} \cap {t})
                 ELSE Cardinality({n \in last.asked : Parsed[n] = t})
  IN
  /\ last.result = "responses" => \A t \in Target : has(t) = asks(t)
  /\ last.result = "null" => last.sent = <<>>
  /\ last.result = "error" =>
       /\ \A t \in Target : has(t) <= asks(t)
       /\ \A t \in Phone, u \in Extension : has(t) > 0 => has(u) = asks(u)
  /\ last.sent # <<>> => \A n \in last.asked : Parsed[n] \in Target
  /\ \A t \in Phone : has(t) > 0 => last.validSender
  /\ sends = {} => sendStatus = "idle"
=============================================================================
