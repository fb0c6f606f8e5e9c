-------------------------------- MODULE Client --------------------------------
(***************************************************************************)
(* What the web client shows of pages and of messages: the page cache of   *)
(* the server, the parser of a page, the page browser and the              *)
(* conversations.  They share no variable, so a behaviour takes one of     *)
(* them; the others stay as they were.                                     *)
(***************************************************************************)
EXTENDS BrowserCache, Micron, PageView, ConversationPane

ClientInit == Init /\ PageInit /\ ViewInit /\ ConversationInit

ClientNext ==
    \/ /\ PageInit /\ ViewInit /\ ConversationInit
       /\ Next /\ UNCHANGED <<pageVars, viewVars, conversationVars>>
    \/ /\ Init /\ ViewInit /\ ConversationInit
       /\ PageNext /\ UNCHANGED <<vars, viewVars, conversationVars>>
    \/ /\ Init /\ PageInit /\ ConversationInit
       /\ ViewNext /\ UNCHANGED <<vars, pageVars, conversationVars>>
    \/ /\ Init /\ PageInit /\ ViewInit
       /\ ConversationNext /\ UNCHANGED <<vars, pageVars, viewVars>>

ClientSpec == ClientInit /\ [][ClientNext]_<<vars, pageVars, viewVars, conversationVars>>

\* The types of the parts that have variables of several kinds.
ClientTypeOK == TypeOK /\ ViewTypeOK /\ ConversationTypeOK
=============================================================================
