----------------------------- MODULE AssistantChat -----------------------------
(***************************************************************************)
(* The chat with the assistant: each question opens a stream of tokens,    *)
(* and as soon as it begins the next question may be asked, so streams     *)
(* overlap. The messages are kept in the browser's storage.                *)
(***************************************************************************)
EXTENDS Naturals, Sequences, FiniteSets, SequencesExt

CONSTANTS
    MaxQuestions,  \* bound: questions
    MaxTokens,     \* bound: tokens of an answer
    MaxForgets,    \* bound: how often the chat is cleared or the page loaded again
    MAX_STORED     \* how many messages are kept

ASSUME ChatAssumption ==
    MaxQuestions \in Nat /\ MaxTokens \in Nat /\ MaxForgets \in Nat /\ MAX_STORED \in Nat

VARIABLES
    messages, thinking,
    storage,     \* what a page that is loaded finds
    answers,     \* of each question asked: how far its answer is
    forgets, unsaved  \* unsaved is not in the program: a save failed

chatVars == <<messages, thinking, storage, answers, forgets, unsaved>>

Sorry == << <<0, 0>> >>
Question(q) == [role |-> "user", q |-> q, content |-> <<>>]
Reply(q, content) == [role |-> "assistant", q |-> q, content |-> content]

Messages == [role : {"user", "assistant"}, q : 1 .. MaxQuestions, content : Seq(Nat \X Nat)]

ChatTypeOK ==
    /\ thinking \in BOOLEAN /\ unsaved \in BOOLEAN /\ forgets \in 0 .. MaxForgets
    /\ answers \in Seq([at : {"asked", "streaming", "ended"}, tokens : 0 .. MaxTokens])
    /\ Len(answers) <= MaxQuestions
    /\ messages \in Seq(Messages) /\ storage \in Seq(Messages) /\ Len(storage) <= MAX_STORED
    /\ \A m \in Range(messages) \cup Range(storage) : m.q \in DOMAIN answers

ChatInit ==
    /\ messages = <<>> /\ thinking = FALSE /\ storage = <<>>
    /\ answers = <<>> /\ forgets = 0 /\ unsaved = FALSE

\* A variant that stores all messages.
Kept_All(list) == list

Kept(list) ==
    IF Len(list) <= MAX_STORED THEN list ELSE SubSeq(list, Len(list) - MAX_STORED + 1, Len(list))

\* The last messages are stored; an empty chat is not, and a full storage is ignored.
ShowMessages(list) ==
    /\ messages' = list
    /\ IF list = <<>> \/ list = messages THEN UNCHANGED <<storage, unsaved>>
       ELSE \/ storage' = Kept(list) /\ UNCHANGED unsaved
            \/ UNCHANGED storage /\ unsaved' = TRUE

sendMessage ==
    LET q == Len(answers) + 1
    IN  /\ ~thinking /\ q <= MaxQuestions
        /\ answers' = Append(answers, [at |-> "asked", tokens |-> 0])
        /\ thinking' = TRUE
        /\ ShowMessages(Append(messages, Question(q)))
        /\ UNCHANGED forgets

\* The stream begins; so it does when the API answers with an error or not at all.
Begin(q) ==
    /\ answers[q].at = "asked"
    /\ answers' = [answers EXCEPT ![q].at = "streaming"]
    /\ thinking' = FALSE
    /\ ShowMessages(Append(messages, Reply(q, <<>>)))
    /\ UNCHANGED forgets

Replaced(q, content) ==
    [n \in DOMAIN messages |->
        IF messages[n].role = "assistant" /\ messages[n].q = q THEN Reply(q, content) ELSE messages[n]]

Shown(q) == \E m \in Range(messages) : m.role = "assistant" /\ m.q = q

\* A variant that adds the token to the last message.
Token_Last(q) ==
    LET k == answers[q].tokens + 1
    IN  /\ answers[q].at = "streaming" /\ k <= MaxTokens
        /\ answers' = [answers EXCEPT ![q].tokens = k]
        /\ ShowMessages([n \in DOMAIN messages |->
                     IF n = Len(messages) THEN [messages[n] EXCEPT !.content = Append(@, <<q, k>>)]
                     ELSE messages[n]])
        /\ UNCHANGED <<thinking, forgets>>

\* A token of this stream is added to the message it belongs to, if that is still there.
Token(q) ==
    LET k == answers[q].tokens + 1
    IN  /\ answers[q].at = "streaming" /\ k <= MaxTokens
        /\ answers' = [answers EXCEPT ![q].tokens = k]
        /\ ShowMessages([n \in DOMAIN messages |->
                     IF messages[n].role = "assistant" /\ messages[n].q = q
                     THEN [messages[n] EXCEPT !.content = Append(@, <<q, k>>)] ELSE messages[n]])
        /\ UNCHANGED <<thinking, forgets>>

\* The API ends the stream, when the model has ended or failed.
Done(q) ==
    /\ answers[q].at = "streaming"
    /\ answers' = [answers EXCEPT ![q].at = "ended"]
    /\ UNCHANGED <<messages, thinking, storage, forgets, unsaved>>

\* The request fails or the stream breaks: an apology takes the place of the answer,
\* and whoever else is waiting no longer counts as thinking.
Fail(q) ==
    /\ answers[q].at # "ended"
    /\ answers' = [answers EXCEPT ![q].at = "ended"]
    /\ thinking' = FALSE
    /\ ShowMessages(IF Shown(q) THEN Replaced(q, Sorry) ELSE Append(messages, Reply(q, Sorry)))
    /\ UNCHANGED forgets

\* Streams go on.
clear ==
    /\ forgets < MaxForgets /\ forgets' = forgets + 1
    /\ messages' = <<>> /\ storage' = <<>>
    /\ UNCHANGED <<thinking, answers, unsaved>>

\* The page is loaded again, and its streams are gone.
Mount ==
    /\ forgets < MaxForgets /\ forgets' = forgets + 1
    /\ messages' = storage /\ thinking' = FALSE
    /\ answers' = [q \in DOMAIN answers |-> [answers[q] EXCEPT !.at = "ended"]]
    /\ UNCHANGED <<storage, unsaved>>

ChatNext ==
    \/ sendMessage \/ clear \/ Mount
    \/ \E q \in DOMAIN answers : Begin(q) \/ Token(q) \/ Done(q) \/ Fail(q)

ChatSpec == ChatInit /\ [][ChatNext]_chatVars

-----------------------------------------------------------------------------
Tokens(q, n) == [k \in 1 .. n |-> <<q, k>>]

Said(role, q) == {n \in DOMAIN messages : messages[n].role = role /\ messages[n].q = q}

\* An answer on the page is the apology or all tokens of its own stream in order, also
\* after the page was loaded again unless a save had failed; and until the chat is
\* cleared or loaded again each question has, below it, the one answer its stream
\* has begun, however the streams overlap.
ChatWhole ==
    /\ \A m \in Range(messages) : m.role = "assistant" /\ m.content # Sorry =>
           \E n \in 0 .. answers[m.q].tokens :
               m.content = Tokens(m.q, n) /\ (~unsaved => n = answers[m.q].tokens)
    /\ forgets = 0 => \A q \in DOMAIN answers :
           /\ Cardinality(Said("user", q)) = 1
           /\ Cardinality(Said("assistant", q)) = IF answers[q].at = "asked" THEN 0 ELSE 1
           /\ \A u \in Said("user", q), a \in Said("assistant", q) : u < a
=============================================================================
