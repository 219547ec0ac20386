------------------------------ MODULE MCStartup ------------------------------
(***************************************************************************)
(* An instance of MCPStartup for TLC: two servers whose namespaced names   *)
(* can agree, a__b__find being tool b__find of server a and tool find of   *)
(* a__b.  The registry starts with a tool called find, as theirs are, and  *)
(* with one that already has the namespaced name of one of theirs.         *)
(***************************************************************************)
EXTENDS MCPStartup, TLC

MCOrder == <<"a", "a__b">>

MCRemoteName == {"find", "b__find", "pay.now"}

MCFirstParty == {"find", "a__b__b__find"}

MCLocalName ==
  [pair \in Server \X RemoteName |->
     CASE pair = <<"a", "find">>       -> "a__find"
       [] pair = <<"a", "b__find">>    -> "a__b__find"
       [] pair = <<"a__b", "find">>    -> "a__b__find"
       [] pair = <<"a__b", "b__find">> -> "a__b__b__find"
       [] OTHER                        -> "not accepted"]

MCRegistrable == {"a__find", "a__b__find", "a__b__b__find"}

MCDefaultRisk == ("a" :> 2) @@ ("a__b" :> 1)
MCToolRisk    == ("a" :> ("find" :> 0)) @@ ("a__b" :> ("b__find" :> 2))

MCPage ==
  {[tools |-> tools, more |-> more] :
     tools \in {<< >>} \cup {<<d>> : d \in Declaration}
               \cup {<<d, e>> : d, e \in [name : RemoteName, schema : {"usable"}]},
     more \in BOOLEAN}
=============================================================================
