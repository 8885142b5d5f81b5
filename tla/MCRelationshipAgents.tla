------------------------ MODULE MCRelationshipAgents ------------------------
(***************************************************************************)
(* Two names, one of them shared by components of several types, and a     *)
(* reused component whose element id is not one.                           *)
(***************************************************************************)
EXTENDS RelationshipAgents, TLC

MCName == {"strategy", "tactics", "unheard of"}

MCLevelNumber == {-1, 0, 1, 3, 5, 6}

MCLabelOf == (11 :> "Knowledge") @@ (12 :> "Skill") @@ (13 :> "Trait") @@ (14 :> "Milestone")

Entry(name, id) == [name |-> name, id |-> id]

MCRegistries ==
    {[Knowledge |-> <<Entry("tactics", 11)>>,
      Skill     |-> <<Entry("tactics", 12), Entry("strategy", 0)>>,
      Trait     |-> << >>,
      Milestone |-> <<Entry("strategy", 14)>>],
     [Knowledge |-> <<Entry("tactics", 0), Entry("tactics", 11)>>,
      Skill     |-> <<Entry("strategy", 12)>>,
      Trait     |-> <<Entry("tactics", 13)>>,
      Milestone |-> << >>]}

\* "Chess", "Scrum Master" and "Novice to Competent Chess"-like names.
MCDomainNames == {{}, {5}, {1, 3}}
=============================================================================
