-------------------------- MODULE MCIntercomBroker --------------------------
(* Small instances of IntercomBroker for TLC.                              *)
EXTENDS IntercomBroker

LOCAL INSTANCE TLC

CONSTANTS s1, s2, s3, n1, x1, x2, a, b, c, bb, m1, m2, m3

\* The message objects of the instances.  Keys are <<scope, id>>.
Plain(id, by, to) ==
  [id |-> id, by |-> by, to |-> to, replyTo |-> NoMsg, supersedes |-> NoMsg, expectsReply |-> FALSE]
Ask(id, by, to) == [Plain(id, by, to) EXCEPT !.expectsReply = TRUE]
Reply(m, to) == [m EXCEPT !.replyTo = to]

KA == <<x1, a>>
KB == <<x1, b>>
KC == <<x1, c>>

TwoSockets == {s1, s2}
ThreeSockets == {s1, s2, s3}
OneScope == {x1}
TwoScopes == {x1, x2}
AB == {a, b}
ABC == {a, b, c}
OneName == {n1}
NoNames == {}
NoPrefixes == {}

\* a asks b, b asks a, b answers with another ask
AskCatalogue == {Ask(m1, KA, b), Ask(m2, KB, a), Reply(Ask(m3, KB, a), m1)}

OneLetter == {Plain(m1, KC, a)}
\* in each scope a writes to whoever is called n1
ScopedLetter == {Plain(m1, KA, n1)}

\* a writes to b, then supersedes it
MailCatalogue ==
  {Plain(m1, KA, b), [Plain(m2, KA, b) EXCEPT !.supersedes = m1]}

\* States that differ only in the frames of the last step have the same future.
StateView == futureVars

SocketSymmetry == Permutations(Sockets)
=============================================================================
