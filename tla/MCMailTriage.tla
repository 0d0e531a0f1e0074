---------------------------- MODULE MCMailTriage ----------------------------
(* An instance of MailTriage: a blank message, "no", "dont send", which        *)
(* matches an approving and a rejecting keyword, and a request to redraft; the *)
(* planner answers, calls one tool, or queues a second call behind the first.  *)
EXTENDS MailTriage

UserTexts == {{}, {"word", "reject"}, {"word", "approve", "reject"}, {"word", "redraft"}}
Starts == {"query", "approval", "maintenance"}
Plans == {<<>>} \union {<<c>> : c \in Calls}
         \union {<<Call("gmail_fetch", 0, FALSE), Call("email_classifier", 0, FALSE)>>,
                 <<Call("draft_reply", 1, FALSE), Call("email_send", 1, FALSE)>>,
                 <<Call("email_send", 1, FALSE), Call("email_send", 1, FALSE)>>}
=============================================================================
