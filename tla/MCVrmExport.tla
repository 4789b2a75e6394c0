---------------------------- MODULE MCVrmExport ----------------------------
(* Two exports into one directory: every pair of requests below. *)
EXTENDS VrmExport

CONSTANTS j1, j2

MCJobs == {j1, j2}

Asset(kind, path, bytes, ext) == [kind |-> kind, path |-> path, bytes |-> bytes, ext |-> ext]

Png(path, bytes) == Asset("image", path, bytes, "png")

Empty == Asset("empty", "none", "none", "none")

Input(of, paths) == [of |-> of, opens |-> TRUE, paths |-> paths]

\* The two avatars share path x with other bytes, and the bytes b1 at other paths.
Anna == Input("anna", <<Png("x", "b1"), Png("y", "b1"), Empty, Png("x", "b1")>>)
Bert == Input("bert", <<Png("x", "b2"), Asset("image", "z", "b1", "jpg"), Png("w", "b1")>>)
Layered == Input("layered", <<Png("x", "b1"), Asset("layer", "l", "none", "usda")>>)
Damaged == Input("damaged", <<Asset("unreadable", "u", "none", "png"), Png("x", "b1")>>)
Closed == [Input("closed", << >>) EXCEPT !.opens = FALSE]
Carl == Input("carl", <<Png("c", "b3")>>)

One == <<"output", "one", "usda">>
Two == <<"output", "two", "usdc">>
Zip == <<"output", "one", "usdz">>

Request(input, output) ==
    [command |-> "export", input |-> input, vrm |-> TRUE, format |-> output[3],
     output |-> output, motion |-> "none", overwrite |-> FALSE, flatten |-> FALSE,
     check |-> FALSE, report |-> FALSE]

Moving(r) == [r EXCEPT !.motion = "clip", !.report = TRUE]

\* An output with the name of the avatar layer the export is to write beside it.
OwnAvatar ==
    [Moving(Request(Carl, <<"avatar", "carl", <<<<"textures", "b3", "png">>>> >>)) EXCEPT
        !.format = "usdc"]

Exports ==
    {Request(Anna, One),
     [Request(Anna, One) EXCEPT !.overwrite = TRUE, !.check = TRUE],
     [Request(Bert, One) EXCEPT !.overwrite = TRUE, !.flatten = TRUE, !.report = TRUE],
     Moving(Request(Anna, One)),
     [Moving(Request(Bert, Two)) EXCEPT !.check = TRUE],
     [Moving(Request(Bert, One)) EXCEPT !.flatten = TRUE],
     [Moving(Request(Anna, Zip)) EXCEPT !.check = TRUE],
     [Request(Bert, Zip) EXCEPT !.overwrite = TRUE]}

Refusals ==
    {[Request(Anna, One) EXCEPT !.command = "malformed"],
     [Request(Anna, One) EXCEPT !.command = "help"],
     [Request(Anna, One) EXCEPT !.format = "unknown"],
     [Request(Anna, One) EXCEPT !.vrm = FALSE],
     [Request(Anna, One) EXCEPT !.motion = "other"],
     Request(Closed, One), Request(Layered, Two), Request(Damaged, Zip), OwnAvatar}

MCRequests == Exports \cup Refusals

Before(kind) == [n \in {One} |-> Content(kind, kind, FALSE, << >>, NoFiles)]

\* What an export of Anna with a clip left at One, its textures among them.
Earlier ==
    LET b1 == <<"textures", "b1", "png">>
        avatar == <<"avatar", "anna", <<b1, b1, << >>, b1>> >>
    IN  [n \in {One, avatar, b1} |->
            CASE n = One -> BindingLayer("anna", <<avatar>>)
              [] n = avatar -> AvatarLayer("anna", FALSE, <<b1, b1, << >>, b1>>)
              [] OTHER -> Image("b1")]

MCDisks == {NoFiles, Before("user"), Before("directory"), Earlier}
=============================================================================
