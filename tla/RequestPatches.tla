---------------------------- MODULE RequestPatches ----------------------------
(***************************************************************************)
(* What the patches of a route mean, said another way than by the loops of *)
(* the code (RequestPipeline): a JSON tree is the set of its leaves, and a *)
(* patch replaces some of them.                                            *)
(***************************************************************************)
EXTENDS RequestPipeline

(* encoding/json on trees of any depth.                                    *)
RECURSIVE PlainTree(_, _)
PlainTree(heap, n) ==
    LET f == Fields(heap, n)
    IN  IF IsObject(n) THEN Obj([k \in DOMAIN f |-> PlainTree(heap, f[k])]) ELSE n

RECURSIVE ParsedTree(_)
ParsedTree(n) ==
    IF IsObject(n) THEN Obj([k \in DOMAIN n.fields |-> ParsedTree(n.fields[k])])
    ELSE ParsedLeaf(n)
-----------------------------------------------------------------------------
(* An object without fields is a leaf "{}".                                *)
RECURSIVE Leaves(_)
Leaves(n) ==
    IF ~IsObject(n) THEN {<< <<>>, n.val >>}
    ELSE IF n.fields = <<>> THEN {<< <<>>, <<"{}">> >>}
    ELSE UNION {{<< <<k>> \o l[1], l[2] >> : l \in Leaves(n.fields[k])} : k \in DOMAIN n.fields}

SetLeaves(leaves, path, v) ==
    {l \in leaves : ~IsPrefix(l[1], path) /\ ~IsPrefix(path, l[1])}
      \cup {<<path \o l[1], l[2]>> : l \in Leaves(Parsed(v))}
DeleteLeaves(leaves, path) ==
    LET rest == {l \in leaves : ~IsPrefix(path, l[1])} IN
    IF rest = leaves \/ \E l \in rest : IsPrefix(Front(path), l[1]) THEN rest
    ELSE rest \cup {<<Front(path), <<"{}">> >>}
PatchLeaves(leaves, p) ==
    LET path == SplitPatchPath(p.path) IN
    CASE path = <<>> -> leaves
      [] path # <<>> /\ p.op = <<"set">> -> SetLeaves(leaves, path, p.value)
      [] path # <<>> /\ p.op = <<"delete">> -> DeleteLeaves(leaves, path)

ExpectedLeaves(q) ==
    LET body == IF q.op = Chat THEN NormalizeRequest(q.body) ELSE q.body
        configured == IF Routed(q) THEN Route(q).patches ELSE <<>>
        patched == FoldLeft(PatchLeaves, Leaves(Parsed(body)), configured)
    IN  IF ModelForUpstream(q) = <<>> THEN patched
        ELSE SetLeaves(patched, << <<"model">> >>, Leaf(ModelForUpstream(q)))

(* No configured object is put inside another configured object.           *)
NoObjectInObject(patches) ==
    \A j, k \in DOMAIN patches :
        (j < k /\ IsObject(patches[j].value) /\ IsObject(patches[k].value)
            /\ patches[j].op = <<"set">> /\ patches[k].op = <<"set">>) =>
        ~IsStrictPrefix(SplitPatchPath(patches[j].path), SplitPatchPath(patches[k].path))

(* Every JSON request gets the patches as they are configured, the first   *)
(* as the hundredth, although earlier requests have changed the configured *)
(* objects; except where one of these is set inside another.               *)
PatchesAsConfigured ==
    (WasSent /\ Json(request) /\ IsObject(request.body)
        /\ NoObjectInObject(PatchesOf(request))) =>
        Leaves(Parsed(sent.node)) = ExpectedLeaves(request)
=============================================================================
