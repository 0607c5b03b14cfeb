----------------------------- MODULE MCAnswers -----------------------------
EXTENDS Answers

\* Up to seven entries; limits on both sides of the clamping and offsets on both
\* sides of the start.
MCLimits == {-1, 0, 1, 2, 5}
MCOffsets == {-1, 0, 1, 7}
MCQueries ==
  UNION {[kind : {"plain", "search"}, length : {n}, granted : {{}}, admin : {TRUE},
          limit : MCLimits, offset : MCOffsets]
         \cup [kind : {"spaces"}, length : {n}, granted : SUBSET (1..n),
               admin : BOOLEAN, limit : MCLimits, offset : MCOffsets]
         : n \in 0..7}

\* Any drive with up to two permissions, alone and after another one, and any
\* three that differ in what is sorted by.
MCPermissions == {p \in SUBSET RootPermission : Cardinality(p) <= 2}
MCDrives ==
  {d \in [type : {"personal", "project", "mountpoint", "virtual"}, name : {1},
          own : Roles, effective : SUBSET Roles, permissions : MCPermissions] :
     Listable(d)}
MCSorted == [type : {"personal", "project", "mountpoint", "virtual"}, name : 1..2,
             own : {"viewer"}, effective : {{"viewer"}}, permissions : {{}}]
MCDriveLists == {<<>>} \cup {<<d>> : d \in MCDrives} \cup {<<e, d>> : e \in MCSorted, d \in MCDrives}
                  \cup {<<d, e, f>> : d \in MCSorted, e \in MCSorted, f \in MCSorted}
=============================================================================
