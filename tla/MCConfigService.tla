-------------------------- MODULE MCConfigService --------------------------
EXTENDS ConfigService, TLC

CONSTANTS v1, p1

\* Two names that differ in an escaped character.
MCItemNames == {<<" ">>, <<"%", "2", "0">>}

MCTitle == [title |-> v1, allowed |-> Absent]
MCAllowed == [title |-> Falsy, allowed |-> <<p1>>]
MCBodies == {MCTitle, MCAllowed}

\* Up to one file of the plugin and two of the user.
MCStores ==
  LET nameOf == CHOOSE n \in ItemNames : TRUE IN
  {[s \in Scopes |-> [n \in ItemNames |->
      CASE s = User /\ n = nameOf -> u
        [] s = User /\ n # nameOf -> other
        [] s = Plugin /\ n = nameOf -> p
        [] OTHER -> NotFound]] :
     u \in MCBodies \cup {NotFound}, p \in {NotFound, MCAllowed},
     other \in {NotFound, MCTitle}}

\* The requests are alike.
MCSymmetry == Permutations(Requests)
=============================================================================
