----------------------------- MODULE DocumentTags -----------------------------
(***************************************************************************)
(* The tags onConsumed gives a new document in the background: one for     *)
(* paperless-gpt, one for the category the language model finds. The two   *)
(* run at once, on several documents at once. Each looks its tag up, makes *)
(* it when there is none, reads the document's tags and writes them back   *)
(* with its own added.                                                     *)
(***************************************************************************)
EXTENDS FiniteSets, Naturals

CONSTANTS
    TagDocs,     \* documents
    Categories,  \* names the language model may answer
    GptName,     \* the name paperless-gpt
    Before,      \* a tag a document has from elsewhere
    NoTag        \* a job that has not found its tag

VARIABLES
    tagsNamed,   \* how many tags have each name, 0 .. 2
    docTags,     \* the tags of each document, by name
    job,         \* of each document and job: step, name of its tag, tags it has read
    given, tagMet  \* not in the program: the tags each document was given; and "name"
                   \* when two jobs looked for one name at once, and the documents
                   \* whose tags both jobs had read

tagVars == <<tagsNamed, docTags, job, given, tagMet>>

Names == Categories \cup {GptName}
Jobs == TagDocs \X {"gpt", "category"}

TagsTypeOK ==
    /\ tagsNamed \in [Names -> 0 .. 2]
    /\ docTags \in [TagDocs -> SUBSET (Names \cup {Before})]
    /\ job \in [Jobs -> [at : {"idle", "lookup", "create", "read", "write", "ended"},
                         name : Names \cup {NoTag}, seen : SUBSET (Names \cup {Before})]]
    /\ given \in [TagDocs -> SUBSET Names] /\ tagMet \subseteq TagDocs \cup {"name"}

TagsInit ==
    /\ tagsNamed = [n \in Names |-> 0]
    /\ docTags = [d \in TagDocs |-> {Before}]
    /\ job = [j \in Jobs |-> [at |-> "idle", name |-> NoTag, seen |-> {}]]
    /\ given = [d \in TagDocs |-> {}] /\ tagMet = {}

\* A new row for the document: both jobs start.
onConsumed(d) ==
    /\ job[<<d, "gpt">>].at = "idle"
    /\ job' = [j \in Jobs |-> IF j = <<d, "gpt">> THEN [job[j] EXCEPT !.at = "lookup", !.name = GptName]
                              ELSE IF j = <<d, "category">> THEN [job[j] EXCEPT !.at = "lookup"]
                              ELSE job[j]]
    /\ UNCHANGED <<tagsNamed, docTags, given, tagMet>>

\* The text of the document is read and classified; too little text ends the job.
Classify(d, c) ==
    LET j == <<d, "category">>
    IN  /\ job[j].at = "lookup" /\ job[j].name = NoTag
        /\ job' = [job EXCEPT ![j].name = c]
        /\ UNCHANGED <<tagsNamed, docTags, given, tagMet>>

\* Every call may fail, and ends the job; the failure is at most logged.
JobFails(j) ==
    /\ job[j].at \notin {"idle", "ended"}
    /\ job' = [job EXCEPT ![j].at = "ended", ![j].seen = {}]
    /\ UNCHANGED <<tagsNamed, docTags, given, tagMet>>

\* getOrCreatePaperlessTag
FindTag(j) ==
    /\ job[j].at = "lookup" /\ job[j].name # NoTag
    /\ job' = [job EXCEPT ![j].at = IF tagsNamed[job[j].name] > 0 THEN "read" ELSE "create"]
    /\ tagMet' = IF \E k \in Jobs \ {j} : job[k].at = "create" /\ job[k].name = job[j].name
                 THEN tagMet \cup {"name"} ELSE tagMet
    /\ UNCHANGED <<tagsNamed, docTags, given>>

\* Whether Paperless takes a second tag of the name is left open: if not, JobFails.
\* The answer may be lost.
CreateTag(j) ==
    /\ job[j].at = "create"
    /\ tagsNamed' = [tagsNamed EXCEPT ![job[j].name] = IF @ < 2 THEN @ + 1 ELSE @]
    /\ \E s \in {"read", "ended"} : job' = [job EXCEPT ![j].at = s]
    /\ UNCHANGED <<docTags, given, tagMet>>

ReadTags(j) ==
    LET d == j[1]
        skip == j[2] = "gpt" /\ job[j].name \in docTags[d]
    IN  /\ job[j].at = "read"
        /\ job' = [job EXCEPT ![j].at = IF skip THEN "ended" ELSE "write",
                              ![j].seen = IF skip THEN {} ELSE docTags[d]]
        /\ tagMet' = IF \E k \in Jobs \ {j} : k[1] = d /\ job[k].at = "write"
                     THEN tagMet \cup {d} ELSE tagMet
        /\ UNCHANGED <<tagsNamed, docTags, given>>

\* A variant that leaves out the tags it has read.
WriteTags_Only(j) ==
    /\ job[j].at = "write"
    /\ docTags' = [docTags EXCEPT ![j[1]] = {job[j].name}]
    /\ given' = [given EXCEPT ![j[1]] = @ \cup {job[j].name}]
    /\ job' = [job EXCEPT ![j].at = "ended", ![j].seen = {}]
    /\ UNCHANGED <<tagsNamed, tagMet>>

\* The list of tags is replaced by the one read and the job's own.
WriteTags(j) ==
    /\ job[j].at = "write"
    /\ docTags' = [docTags EXCEPT ![j[1]] = job[j].seen \cup {job[j].name}]
    /\ given' = [given EXCEPT ![j[1]] = @ \cup {job[j].name}]
    /\ job' = [job EXCEPT ![j].at = "ended", ![j].seen = {}]
    /\ UNCHANGED <<tagsNamed, tagMet>>

TagsNext ==
    \/ \E d \in TagDocs : onConsumed(d)
    \/ \E d \in TagDocs, c \in Categories : Classify(d, c)
    \/ \E j \in Jobs : JobFails(j) \/ FindTag(j) \/ CreateTag(j) \/ ReadTags(j) \/ WriteTags(j)

TagsSpec == TagsInit /\ [][TagsNext]_tagVars

-----------------------------------------------------------------------------
\* Tagging takes nothing away: a document keeps the tags it came with, and those it
\* was given unless both jobs had read the list; and a name belongs to two tags only
\* when two jobs looked for it at once.
TagsKept ==
    /\ \A d \in TagDocs :
           /\ Before \in docTags[d]
           /\ d \notin tagMet => given[d] \subseteq docTags[d]
    /\ "name" \notin tagMet => \A n \in Names : tagsNamed[n] <= 1

=============================================================================
