------------------------------ MODULE MCAccounts ------------------------------
(* One user's attributes and the onboarding of users, checked by one run: each *)
(* behaviour is one of UserAccounts or one of Onboarding. They meet where an   *)
(* onboarding sets up a mailbox, which UserAccounts has as the handler onboard.*)
EXTENDS UserAccounts, Onboarding

CONSTANTS u1, u2

\* Authentik's list of users.
MCUsers == <<u1, u2>>


VARIABLE focus

\* The part that does not move has one initial state.
MCInit ==
    /\ Init /\ OnboardingInit
    /\ \/ focus = "accounts" /\ known = {}
       \/ focus = "onboarding" /\ known = AllUsers /\ mailbox = NoValue

MCNext ==
    /\ UNCHANGED focus
    /\ \/ focus = "accounts" /\ Next /\ UNCHANGED obVars
       \/ focus = "onboarding" /\ OnboardingNext /\ UNCHANGED vars

\* Without a user no poll has anything to do, so the fairness of Onboarding asks
\* nothing of the behaviours of UserAccounts.
MCSpec == MCInit /\ [][MCNext]_<<vars, obVars, focus>> /\ OnboardingFairness

\* Every variable of the two parts has its type.
AllTypesOK == TypeOK /\ OnboardingTypeOK

=============================================================================
