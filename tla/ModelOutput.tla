---------------------------- MODULE ModelOutput ----------------------------
(***************************************************************************)
(* What the callers of a language model make of a reply.  A caller parses  *)
(* and validates it, hands an invalid one to safe_parse for repair, turns  *)
(* an exhausted quota into a failure response, and treats other errors of  *)
(* the provider in its own way: each has its row here.                     *)
(***************************************************************************)
EXTENDS Naturals

\* valid: parses and validates.  garbled: text that does not.  blank: no text.
\* quota, error: the call raises, with or without a keyword of a limit in it.
Replies == {"valid", "garbled", "blank", "quota", "error"}

\* What a caller does next: use the output, repair the text, return a failure
\* response, or raise.  No caller lets an exhausted quota escape.
Handles(valid, garbled, blank, error) ==
    [valid |-> valid, garbled |-> garbled, blank |-> blank,
     quota |-> {"fail"}, error |-> error]

\* check_provider_quota searches the text of an exception, and that of a parse
\* error quotes the reply: a caller that asks it about a parse error may take
\* the reply for an exhausted quota.
OrQuota(next) == {next, "fail"}

\* Their parse errors are swallowed, an empty text is not worth a repair.
QueryClassifier == Handles({"use"}, {"repair"}, {"fail"}, {"raise"})
UserIntent == Handles({"use"}, {"repair"}, {"fail"}, {"raise"})

\* Without a reply there is nothing to repair.
MultiQuery == Handles({"use"}, OrQuota("repair"), {"fail"}, {"fail"})
Decomposition == Handles({"use"}, OrQuota("repair"), {"fail"}, {"fail"})
Translation == Handles({"use"}, OrQuota("repair"), {"fail"}, {"fail"})
AnswerReply == Handles({"use"}, OrQuota("repair"), {"fail"}, {"fail"})

\* The parse is under the same handler as the call: a reply that does not parse
\* raises, and the repair after it is never reached.
StepBack == Handles({"use"}, OrQuota("raise"), {"raise"}, {"raise"})

\* HYDE_fucntion parses nothing: any text is the hypothetical document.
HyDE == Handles({"use"}, {"use"}, {"use"}, {"raise"})

-----------------------------------------------------------------------------
\* max_retries of safe_parse.
MaxAttempts == 3

Recovered == [to |-> "recovered"]
Lost == [to |-> "lost"]
Again(n, fresh) == [to |-> "again", n |-> n, fresh |-> fresh]
RepairSteps == {Recovered, Lost} \cup {Again(n, f) : n \in 2..MaxAttempts, f \in BOOLEAN}

\* Mutant: the attempts are not counted.
SafeParseForever(n, fresh) ==
    {Lost, Again(2, TRUE), Again(2, FALSE)} \cup (IF fresh THEN {Recovered} ELSE {})

\* Attempt n of safe_parse.  It cleans the text in its own way, so that the
\* first attempt may succeed where its caller failed.  A model is asked to
\* repair what is still broken, but for the last time.  A quota error of that
\* call ends the repair, another error leaves the same text for the next
\* attempt (not fresh).
SafeParse(n, fresh) ==
    {o \in RepairSteps :
        \/ o.to = "recovered" /\ fresh
        \/ o.to = "lost"
        \/ o.to = "again" /\ o.n = n + 1}
=============================================================================
