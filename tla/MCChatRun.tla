------------------------------ MODULE MCChatRun ------------------------------
EXTENDS ChatRun, TLC

CONSTANTS one, two

\* A client sends messages while another one sends, stops, deletes or opens the page,
\* over and over.
Traffic == {one :> "send" @@ two :> kind : kind \in Kind}
=============================================================================
