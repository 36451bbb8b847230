----------------------------- MODULE ImageBuilds -----------------------------
(***************************************************************************)
(* The images of runs that deploy without a configured image               *)
(* (executor/image-builder.ts, docker/docker-client.ts): each is built     *)
(* from the run's commit, tagged, pushed if there is a registry, recorded, *)
(* and started by its tag.  Runs on one Docker host share its tags, and    *)
(* all share the registry's: a tag names whatever was built, or pushed,    *)
(* under it last, and every call of docker is a step of its own.           *)
(*                                                                         *)
(* Assumed: commits differ in their first seven digits, no branch is named *)
(* like those, or "latest", and nothing else writes these tags.            *)
(***************************************************************************)
EXTENDS Integers, Sequences

CONSTANTS Builds, NoBuild, \* the runs, each with its own build of an image
          Commits, Branches, \* branches by the names sanitized for tags
          DockerHosts

ASSUME BuildsAssumption == NoBuild \notin Builds

VARIABLES
  build,     \* the runs: what they deploy, where they are, the tag being pushed
             \* (next), the digests they read (of the local image, of the push)
             \* and the image that they started
  local,     \* the tags on each host: whose image they name
  registry,  \* the tags in the registry
  container_images \* the rows: whose, and the build its digest is of

imageVars == <<build, local, registry, container_images>>

\* What a run deploys: the registry is the project's secret DEPLOYX_REGISTRY.
Sources == [commit : Commits, branch : Branches, host : DockerHosts,
            pushes : BOOLEAN, cloud : BOOLEAN]

ShaTag(commit) == <<"sha", commit>>
LocalTag(commit) == <<"local", commit>>
ImageTags == {ShaTag(c) : c \in Commits} \cup {LocalTag(c) : c \in Commits}
               \cup {<<"branch", b>> : b \in Branches} \cup {<<"latest", 0>>}

ImageInit ==
  /\ build = [j \in Builds |-> [pc |-> "idle", source |-> NoBuild, next |-> 0, digest |-> NoBuild,
                                pushed |-> NoBuild, image |-> NoBuild]]
  /\ local = [h \in DockerHosts |-> [t \in ImageTags |-> NoBuild]]
  /\ registry = [t \in ImageTags |-> NoBuild]
  /\ container_images = {}

\* Mutant of generateTags: the moving tag comes first.
generateTags_BranchFirst(source) ==
  <<<<"branch", source.branch>>, ShaTag(source.commit), <<"latest", 0>>>>

generateTags(source) ==
  <<ShaTag(source.commit), <<"branch", source.branch>>, <<"latest", 0>>>>

\* The tags of a build; the first is the one that is deployed.
Tagged(source) == IF source.pushes THEN generateTags(source) ELSE <<LocalTag(source.commit)>>

Here(j) == local[build[j].source.host]
Tag(j, k) == Tagged(build[j].source)[k]

\* docker inspect finds the digest of what has the tag now, or none.
getImageDigest(j, k) == {NoBuild, Here(j)[Tag(j, k)]}

\* A configured image is taken as it is; a cloud needs a registry; without
\* Docker, or with paths or tags that are not valid, there is no image.
resolveDeployImage(j, source) ==
  /\ build[j].pc = "idle"
  /\ \E pc \in IF source.cloud /\ ~source.pushes THEN {"failed", "given"}
                                                  ELSE {"failed", "given", "building"} :
       build' = [build EXCEPT ![j].pc = pc, ![j].source = source]
  /\ UNCHANGED <<local, registry, container_images>>

buildImage(j) ==
  LET h == build[j].source.host
      named == {Tag(j, k) : k \in 1 .. Len(Tagged(build[j].source))}
  IN
  /\ build[j].pc = "building"
  /\ local' = [local EXCEPT ![h] = [t \in ImageTags |-> IF t \in named THEN j ELSE @[t]]]
  /\ build' = [build EXCEPT ![j].pc = "built"]
  /\ UNCHANGED <<registry, container_images>>

FailBuild(j) ==
  /\ build[j].pc = "building"
  /\ build' = [build EXCEPT ![j].pc = "failed"]
  /\ UNCHANGED <<local, registry, container_images>>

InspectBuild(j) ==
  /\ build[j].pc = "built"
  /\ \E digest \in getImageDigest(j, 1) :
       build' = [build EXCEPT ![j].digest = digest, ![j].next = 1,
                              ![j].pc = IF build[j].source.pushes THEN "pushing" ELSE "recording"]
  /\ UNCHANGED <<local, registry, container_images>>

\* docker push may fail after it has done its work.
pushImage(j, ok) ==
  LET t == Tag(j, build[j].next) IN
  /\ build[j].pc = "pushing"
  /\ \/ registry' = [registry EXCEPT ![t] = Here(j)[t]]
     \/ ~ok /\ UNCHANGED registry
  /\ build' = [build EXCEPT ![j].pc = IF ok THEN "pushed" ELSE "refused"]
  /\ UNCHANGED <<local, container_images>>

\* The digest of the first push counts, and a cloud cannot do without it.
pushTags(j) ==
  LET k == build[j].next
      last == k = Len(Tagged(build[j].source))
  IN
  /\ build[j].pc \in {"pushed", "refused"}
  /\ \E digest \in IF build[j].pc = "pushed" THEN getImageDigest(j, k) ELSE {NoBuild} :
     LET first == IF k = 1 THEN digest ELSE build[j].pushed IN
       build' = [build EXCEPT
         ![j].pushed = first,
         ![j].next = IF last THEN k ELSE k + 1,
         ![j].pc = IF ~last THEN "pushing"
                   ELSE IF build[j].source.cloud /\ first = NoBuild THEN "failed"
                   ELSE "recording"]
  /\ UNCHANGED <<local, registry, container_images>>

Digest(j) == IF build[j].pushed # NoBuild THEN build[j].pushed ELSE build[j].digest

\* The row is not needed for the deployment: a failed call is only logged.
recordBuiltImage(j) ==
  /\ build[j].pc = "recording"
  /\ build' = [build EXCEPT ![j].pc = "deploying"]
  /\ \/ UNCHANGED container_images
     \/ container_images' = container_images \cup
          {[run |-> j, tag |-> build[j].source.commit, digest |-> Digest(j)]}
  /\ UNCHANGED <<local, registry>>

\* docker run takes the host's image of that tag, a cloud the registry's.
StartImage(j) ==
  /\ build[j].pc = "deploying"
  /\ build' = [build EXCEPT ![j].pc = "done",
                 ![j].image = IF build[j].source.cloud THEN registry[Tag(j, 1)]
                                                       ELSE Here(j)[Tag(j, 1)]]
  /\ UNCHANGED <<local, registry, container_images>>

buildDeployImage(j) ==
  \/ buildImage(j) \/ FailBuild(j) \/ InspectBuild(j)
  \/ \E ok \in BOOLEAN : pushImage(j, ok)
  \/ pushTags(j) \/ recordBuiltImage(j)

Imaging ==
  \E j \in Builds :
    \/ \E source \in Sources : resolveDeployImage(j, source)
    \/ buildDeployImage(j)
    \/ StartImage(j)

ImageSpec == ImageInit /\ [][Imaging]_imageVars

ImageTypeOK ==
  /\ \A j \in Builds :
       /\ build[j].pc \in {"idle", "given", "failed", "building", "built", "pushing", "pushed",
                           "refused", "recording", "deploying", "done"}
       /\ build[j].pc # "idle" => build[j].source \in Sources
       /\ build[j].next \in 0 .. 3
       /\ {build[j].digest, build[j].pushed, build[j].image} \subseteq Builds \cup {NoBuild}
  /\ local \in [DockerHosts -> [ImageTags -> Builds \cup {NoBuild}]]
  /\ registry \in [ImageTags -> Builds \cup {NoBuild}]
  /\ \A row \in container_images : row.run \in Builds /\ row.tag \in Commits

-----------------------------------------------------------------------------
(* Property. *)

CommitOf(j) == build[j].source.commit

\* Whatever other runs build and push meanwhile, on this host or another, a
\* run starts an image, that image was built from the run's commit (though
\* perhaps by another run of it), and so was the one whose digest is
\* recorded with the commit.
DeployedIsCommit ==
  /\ \A j \in Builds : build[j].pc = "done" =>
       build[j].image # NoBuild /\ CommitOf(build[j].image) = CommitOf(j)
  /\ \A row \in container_images : row.digest # NoBuild => CommitOf(row.digest) = row.tag
=============================================================================
