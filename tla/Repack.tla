-------------------------------- MODULE Repack --------------------------------
(***************************************************************************)
(* The repack of a raw LDBC tree into the canonical layout                 *)
(* (dataset/ldbc/repack.go). An upstream entity is a sequence of shards in *)
(* name order, a shard a sequence of records, the first record of all of   *)
(* them the header. A cell is a raw id or Empty; a wiring id is <<prefix,  *)
(* raw>>. The properties of a row other than its ids are left out.         *)
(***************************************************************************)
EXTENDS Integers, SequencesExt

CONSTANT Empty

\* gid: the id in the global space, Empty for no id.
Gid(prefix, raw) == IF raw = Empty THEN Empty ELSE <<prefix, raw>>

-----------------------------------------------------------------------------
(* Reading an entity.                                                        *)

\* A column by name: Empty where there is none or the row is short.
Getter(header, row) ==
  [name \in {"id", "type"} \cup ToSet(header) |->
     LET at == {i \in DOMAIN header : header[i] = name}
     IN IF at = {} \/ Max(at) > Len(row) THEN Empty ELSE row[Max(at)]]

\* A column the header does not name is Empty.
Field(g, name) == IF name \in DOMAIN g THEN g[name] ELSE Empty

\* Every record of every shard but the first, and none that repeats the header. A missing
\* directory has no shards.
ForEachRow(shards) ==
  LET records == FlattenSeq(shards)
  IN IF records = <<>> THEN <<>>
     ELSE LET header == Head(records)
              rows == SelectSeq(Tail(records), LAMBDA r : r # header)
          IN [i \in DOMAIN rows |-> Getter(header, rows[i])]

-----------------------------------------------------------------------------
(* What an entity becomes.                                                   *)

Key(type, prefix, column) == [type |-> type, prefix |-> prefix, column |-> column, in |-> FALSE]
\* A foreign key whose edge comes in from the other side.
KeyIn(type, prefix, column) == [Key(type, prefix, column) EXCEPT !.in = TRUE]

\* The node entities in the order they are read: prefix, merged foreign keys.
NodeEntities ==
  [Person |-> [prefix |-> "P", keys |-> <<Key("IS_LOCATED_IN", "L", "LocationCityId")>>],
   Post |-> [prefix |-> "M", keys |-> <<Key("HAS_CREATOR", "P", "CreatorPersonId"),
                                        KeyIn("CONTAINER_OF", "F", "ContainerForumId"),
                                        Key("IS_LOCATED_IN", "L", "LocationCountryId")>>],
   Comment |-> [prefix |-> "M", keys |-> <<Key("HAS_CREATOR", "P", "CreatorPersonId"),
                                           Key("IS_LOCATED_IN", "L", "LocationCountryId"),
                                           Key("REPLY_OF", "M", "Parent")>>],
   Forum |-> [prefix |-> "F", keys |-> <<Key("HAS_MODERATOR", "P", "ModeratorPersonId")>>],
   Place |-> [prefix |-> "L", keys |-> <<Key("IS_PART_OF", "L", "PartOfPlaceId")>>],
   Organisation |-> [prefix |-> "O", keys |-> <<Key("IS_PART_OF", "L", "LocationPlaceId")>>],
   Tag |-> [prefix |-> "T", keys |-> <<Key("HAS_TYPE", "C", "TypeTagClassId")>>],
   TagClass |-> [prefix |-> "C", keys |-> <<Key("IS_SUBCLASS_OF", "C", "SubclassOfTagClassId")>>]]

\* The standalone edge entities: type, and prefix and column of either end.
Ends(type, from, to) == [type |-> type, from |-> from, to |-> to]
EdgeEntities ==
  [Person_knows_Person |-> Ends("KNOWS", <<"P", "Person1Id">>, <<"P", "Person2Id">>),
   Person_hasInterest_Tag |-> Ends("HAS_INTEREST", <<"P", "PersonId">>, <<"T", "TagId">>),
   Person_likes_Post |-> Ends("LIKES", <<"P", "PersonId">>, <<"M", "PostId">>),
   Person_likes_Comment |-> Ends("LIKES", <<"P", "PersonId">>, <<"M", "CommentId">>),
   Person_studyAt_University |-> Ends("STUDY_AT", <<"P", "PersonId">>, <<"O", "UniversityId">>),
   Person_workAt_Company |-> Ends("WORK_AT", <<"P", "PersonId">>, <<"O", "CompanyId">>),
   Forum_hasMember_Person |-> Ends("HAS_MEMBER", <<"F", "ForumId">>, <<"P", "PersonId">>),
   Post_hasTag_Tag |-> Ends("HAS_TAG", <<"M", "PostId">>, <<"T", "TagId">>),
   Comment_hasTag_Tag |-> Ends("HAS_TAG", <<"M", "CommentId">>, <<"T", "TagId">>),
   Forum_hasTag_Tag |-> Ends("HAS_TAG", <<"F", "ForumId">>, <<"T", "TagId">>)]

Types ==
  UNION {{NodeEntities[e].keys[i].type : i \in DOMAIN NodeEntities[e].keys} : e \in DOMAIN NodeEntities}
         \cup {EdgeEntities[e].type : e \in DOMAIN EdgeEntities}

\* A comment names a post or a comment as its parent.
Foreign(row, column) ==
  IF column # "Parent" THEN Field(row, column)
  ELSE IF Field(row, "ParentPostId") # Empty THEN Field(row, "ParentPostId") ELSE Field(row, "ParentCommentId")

\* emitEdge: none where an end is missing.
EmitEdge(from, to) == IF Empty \in {from, to} THEN <<>> ELSE <<<<from, to>>>>

EdgesOfKey(prefix, key, rows) ==
  FlattenSeq([i \in DOMAIN rows |->
    LET self == Gid(prefix, Field(rows[i], "id"))
        other == Gid(key.prefix, Foreign(rows[i], key.column))
    IN IF key.in THEN EmitEdge(other, self) ELSE EmitEdge(self, other)])

-----------------------------------------------------------------------------
(* The canonical layout.                                                     *)

NodeLabels(label) ==
  CASE label \in {"Post", "Comment"} -> {label, "Message"}
    [] label = "Place" -> {"Place", "City", "Country", "Continent"}
    [] label = "Organisation" -> {"Organisation", "Company", "University"}
    [] OTHER -> {label}

Mixed == ""
RelEnds(type) ==
  CASE type = "KNOWS" -> <<"Person", "Person">>
    [] type = "HAS_INTEREST" -> <<"Person", "Tag">>
    [] type = "LIKES" -> <<"Person", "Message">>
    [] type \in {"STUDY_AT", "WORK_AT"} -> <<"Person", "Organisation">>
    [] type \in {"HAS_MEMBER", "HAS_MODERATOR"} -> <<"Forum", "Person">>
    [] type = "HAS_TAG" -> <<Mixed, "Tag">>
    [] type = "HAS_CREATOR" -> <<"Message", "Person">>
    [] type = "CONTAINER_OF" -> <<"Forum", "Post">>
    [] type = "REPLY_OF" -> <<"Comment", "Message">>
    [] type \in {"IS_LOCATED_IN", "IS_PART_OF"} -> <<Mixed, "Place">>
    [] type = "HAS_TYPE" -> <<"Tag", "TagClass">>
    [] type = "IS_SUBCLASS_OF" -> <<"TagClass", "TagClass">>

\* Every node entity, then every edge entity, a file each and the totals counted on the way.
Run(tree) ==
  LET rows == [e \in DOMAIN NodeEntities \cup DOMAIN EdgeEntities |->
                 IF e \in DOMAIN tree THEN ForEachRow(tree[e]) ELSE <<>>]
      nodes == [e \in DOMAIN NodeEntities |->
                  [i \in DOMAIN rows[e] |-> Gid(NodeEntities[e].prefix, Field(rows[e][i], "id"))]]
      merged(type) == MapThenFoldSet(LAMBDA a, b : a \o b, <<>>,
                        LAMBDA k : EdgesOfKey(NodeEntities[k[1]].prefix, NodeEntities[k[1]].keys[k[2]], rows[k[1]]),
                        LAMBDA S : CHOOSE k \in S : TRUE,
                        {k \in UNION {{e} \X DOMAIN NodeEntities[e].keys : e \in DOMAIN NodeEntities} :
                           NodeEntities[k[1]].keys[k[2]].type = type})
      alone(type) == MapThenFoldSet(LAMBDA a, b : a \o b, <<>>,
                       LAMBDA e : [i \in DOMAIN rows[e] |->
                         <<Gid(EdgeEntities[e].from[1], Field(rows[e][i], EdgeEntities[e].from[2])),
                           Gid(EdgeEntities[e].to[1], Field(rows[e][i], EdgeEntities[e].to[2]))>>],
                       LAMBDA S : CHOOSE e \in S : TRUE,
                       {e \in DOMAIN EdgeEntities : EdgeEntities[e].type = type})
      rels == [t \in Types |-> merged(t) \o alone(t)]
  IN [nodes |-> nodes, rels |-> rels,
      nodeCount |-> MapThenSumSet(LAMBDA e : Len(nodes[e]), DOMAIN nodes),
      edgeCount |-> MapThenSumSet(LAMBDA t : Len(rels[t]), DOMAIN rels)]

-----------------------------------------------------------------------------
(* What the repack promises, of a tree whose ids are unique in an entity (posts and         *)
(* comments together) and whose foreign keys name rows that are there.                      *)

NodesOf(d, label) == UNION {ToSet(d.nodes[e]) : e \in {e \in DOMAIN d.nodes : label \in NodeLabels(e)}}
EveryNode(d) == UNION {ToSet(d.nodes[e]) : e \in DOMAIN d.nodes}

\* Entities that count their ids each from one do not collide, no row is lost, whatever
\* the shards and wherever the header is repeated, and every edge joins nodes of the labels
\* the manifest names.
RepacksWhole(d, tree, whole) ==
  /\ Cardinality(EveryNode(d)) = d.nodeCount
  /\ \A e \in DOMAIN NodeEntities : Len(d.nodes[e]) = IF e \in DOMAIN tree THEN whole[e] ELSE 0
  /\ Empty \notin EveryNode(d)
  /\ \A t \in Types : \A i \in DOMAIN d.rels[t] :
       /\ d.rels[t][i][1] \in IF RelEnds(t)[1] = Mixed THEN EveryNode(d) ELSE NodesOf(d, RelEnds(t)[1])
       /\ d.rels[t][i][2] \in NodesOf(d, RelEnds(t)[2])
=============================================================================
