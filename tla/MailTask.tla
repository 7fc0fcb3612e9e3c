------------------------------ MODULE MailTask ------------------------------
(***************************************************************************)
(* The task that sends a test mail (tasks/mailtest.py) and the delivery    *)
(* it uses (mail.py): one attempt for each MX record of the recipient's    *)
(* domain, all of them through the same relay, until one raises nothing.   *)
(*                                                                         *)
(* The relay is external.  An attempt may fail before or after the text    *)
(* has been read from its buffer and before or after the relay has         *)
(* accepted it; an answer other than an exception is not looked at         *)
(* (smtplib's mail, rcpt and data return the codes they get).              *)
(***************************************************************************)
EXTENDS Sequences, Integers

CONSTANT MaxHosts  \* bound on the MX records of the domain
ASSUME HostsBound == MaxHosts \in Nat \ {0}

VARIABLES
  recipient,   \* "dev": dev@tooling.apache.org; "other": anybody else
  mpc,         \* where send_core is
  hosts,       \* how many MX records there are
  tried,       \* how many have been tried
  reader,      \* where dkim_reader stands
  inbox,       \* the copies that the relay has accepted: "whole" or "empty"
  mailAnswer   \* what the handler has returned

mailVars == <<recipient, mpc, hosts, tried, reader, inbox, mailAnswer>>

MailTypeOK ==
  /\ recipient \in {"dev", "other"}
  /\ mpc \in {"idle", "send", "returned"}
  /\ hosts \in 0..MaxHosts /\ tried \in 0..hosts
  /\ reader \in {"start", "end"}
  /\ inbox \in Seq({"whole", "empty"})
  /\ mailAnswer \in {"none", "completed", "failed"}

MailInit ==
  /\ recipient \in {"dev", "other"}
  /\ mpc = "idle"
  /\ hosts = 0 /\ tried = 0
  /\ reader = "start"
  /\ inbox = <<>>
  /\ mailAnswer = "none"

MailReturns(a) == mailAnswer' = a /\ mpc' = "returned"

\* Anybody but dev@tooling.apache.org needs a query, for which asyncio.run is
\* called inside the worker's running loop: it raises, and send reports that.
\* The DKIM key or the MX records may be missing.
MailRefused ==
  /\ mpc = "idle"
  /\ MailReturns("failed")
  /\ UNCHANGED <<recipient, hosts, tried, reader, inbox>>

Resolve ==
  /\ mpc = "idle"
  /\ recipient = "dev"
  /\ mpc' = "send"
  /\ hosts' \in 1..MaxHosts
  /\ UNCHANGED <<recipient, tried, reader, inbox, mailAnswer>>

\* What the relay gets if the text is read now.
Text == IF reader = "start" THEN "whole" ELSE "empty"

\* Mutant of Raises: the next attempt reads on from where this one stopped.
RaisesWithoutSeek ==
  /\ mpc = "send"
  /\ tried < hosts
  /\ tried' = tried + 1
  /\ \/ inbox' = inbox /\ reader' \in {reader, "end"}
     \/ inbox' = Append(inbox, Text) /\ reader' = "end"
  /\ IF tried' = hosts THEN MailReturns("failed") ELSE UNCHANGED <<mpc, mailAnswer>>
  /\ UNCHANGED <<recipient, hosts>>

\* _send_one raises, possibly after the relay has accepted the text; the reader is
\* set back and the next host tried.  With the last host, _send_many raises.
Raises ==
  /\ mpc = "send"
  /\ tried < hosts
  /\ tried' = tried + 1
  /\ inbox' \in {inbox, Append(inbox, Text)}
  /\ reader' = "start"
  /\ IF tried' = hosts THEN MailReturns("failed") ELSE UNCHANGED <<mpc, mailAnswer>>
  /\ UNCHANGED <<recipient, hosts>>

\* Nothing raises, whatever the relay has answered to the text.
Sends ==
  /\ mpc = "send"
  /\ tried < hosts
  /\ tried' = tried + 1
  /\ reader' = "end"
  /\ inbox' \in {inbox, Append(inbox, Text)}
  /\ MailReturns("completed")
  /\ UNCHANGED <<recipient, hosts>>

MailNext == MailRefused \/ Resolve \/ Raises \/ Sends
=============================================================================
