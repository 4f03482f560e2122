---------------------------- MODULE Conversation ----------------------------
(***************************************************************************)
(* What the gateway promises to a client: messages of one conversation are *)
(* answered one at a time and strictly in the order they were accepted,    *)
(* and a message that was accepted is dropped only together with the       *)
(* crash of its conversation, or while the gateway stops.                  *)
(***************************************************************************)
EXTENDS Naturals, Sequences

CONSTANTS Keys,   \* conversations
          Jobs,   \* messages
          Key,    \* the conversation of each message
          NoJob

VARIABLES waiting,   \* accepted messages of each conversation, in order
          active,    \* the one being answered
          answered,  \* messages that got their reply
          crashes,   \* conversations that crashed so far
          stopping   \* the gateway was told to stop

conversation == <<waiting, active, answered, crashes, stopping>>

Init ==
    /\ waiting = [k \in Keys |-> <<>>]
    /\ active = [k \in Keys |-> NoJob]
    /\ answered = {} /\ crashes = 0 /\ stopping = FALSE

Accept(j) ==
    /\ waiting' = [waiting EXCEPT ![Key[j]] = Append(@, j)]
    /\ UNCHANGED <<active, answered, crashes, stopping>>

Begin(k) ==
    /\ active[k] = NoJob /\ waiting[k] # <<>>
    /\ active' = [active EXCEPT ![k] = Head(waiting[k])]
    /\ waiting' = [waiting EXCEPT ![k] = Tail(@)]
    /\ UNCHANGED <<answered, crashes, stopping>>

Answer(k) ==
    /\ active[k] # NoJob
    /\ active' = [active EXCEPT ![k] = NoJob]
    /\ answered' = answered \union {active[k]}
    /\ UNCHANGED <<waiting, crashes, stopping>>

Crash(k) ==
    /\ waiting' = [waiting EXCEPT ![k] = <<>>]
    /\ active' = [active EXCEPT ![k] = NoJob]
    /\ crashes' = crashes + 1
    /\ UNCHANGED <<answered, stopping>>

Stop ==
    /\ stopping' = TRUE
    /\ UNCHANGED <<waiting, active, answered, crashes>>

\* While it stops the gateway may give up what is left, of some conversations
\* or of all, first the message being answered, then the queue.
Drop ==
    /\ stopping
    /\ \A k \in Keys : /\ waiting'[k] \in {waiting[k], <<>>}
                       /\ active'[k] \in {active[k], NoJob}
    /\ UNCHANGED <<answered, crashes, stopping>>

Next ==
    \/ \E j \in Jobs : Accept(j)
    \/ \E k \in Keys : Begin(k) \/ Answer(k) \/ Crash(k)
    \/ Stop \/ Drop

Spec == Init /\ [][Next]_conversation
=============================================================================
