----------------------------- MODULE MCStickers -----------------------------
EXTENDS Stickers
Img(form, w, h, scale) == [form |-> form, w |-> w, h |-> h, scale |-> scale, animated |-> FALSE, size |-> 2]
Lossy == Img("VP8 ", 512, 512, 1)
Lossless == Img("VP8L", 512, 512, 1)
Extended == Img("VP8X", 512, 512, 0)
At0(img, n) == [index |-> n, file |-> img, sha256 |-> img, byteLen |-> img.size, width |-> img.w, height |-> img.h, emoji |-> "e"]
Dir(title, imgs) == [title |-> title, entries |-> [n \in DOMAIN imgs |-> At0(imgs[n], n - 1)]]
One1 == Dir(1, <<Lossy>>)
Two2 == Dir(2, <<Lossless, Extended>>)
Three3 == Dir(3, <<Lossy, Extended>>)
Pub(dir) == [kind |-> "publish", dir |-> dir, key |-> "old", published |-> "old", dry |-> FALSE, unlisted |-> FALSE]
Reader(kind, dir) == [kind |-> kind, dir |-> dir, hops |-> <<"x", "peer">>, real |-> "", size |-> 0, have |-> {}, sha256 |-> Lossy]
Browse(n) == [Reader("browse", One1) EXCEPT !.size = n]
Tick1 == [kind |-> "tick"]
Show(calls, errs, cuts) == [calls |-> calls, errors |-> errs, cuts |-> cuts]
Judged(img) == Show(<<Pub(Dir(4, <<img>>)), [Reader("blob", One1) EXCEPT !.sha256 = img]>>, 0, 0)
\* Packs that share a blob, that are published twice, and at one time; dying
\* publishes; pages turned meanwhile; clients at their limit; every layout of
\* the header at its edges.
MCStickerPlan ==
    {Judged([Img(f, w, h, s) EXCEPT !.animated = (a = 1 /\ f = "VP8X")]) :
        f \in {"VP8 ", "VP8L", "VP8X", "junk"}, w \in {256, 511, 512, 768, 1024, 16383}, h \in {512, 513, 8704}, s \in {0, 1}, a \in {0, 1}}
    \cup {
    Judged([Lossy EXCEPT !.size = 4]), Judged([Lossy EXCEPT !.size = 0]),
    Show(<<Pub(Dir(0, <<Lossy>>)), Pub(Dir(1, <<>>)), Pub(Dir(1, <<Lossy, Lossless, Extended>>))>>, 0, 0),
    Show(<<Pub([One1 EXCEPT !.entries[1].index = 1]), Pub([One1 EXCEPT !.entries[1].byteLen = 1]), Pub([One1 EXCEPT !.entries[1].sha256 = Extended]),
           Pub([One1 EXCEPT !.entries[1].emoji = ""]), Pub([One1 EXCEPT !.entries[1].width = 511])>>, 0, 0),
    Show(<<[Pub(One1) EXCEPT !.published = "new"], [Pub(One1) EXCEPT !.published = ""], [Pub(Two2) EXCEPT !.dry = TRUE], Reader("manifest", Two2)>>, 0, 0),
    Show(<<Pub(Two2), Reader("fetch", Two2), [Reader("fetch", Two2) EXCEPT !.have = {Extended}], Pub(Two2)>>, 1, 1),
    Show(<<Pub(One1), [Pub(One1) EXCEPT !.key = "new", !.published = "new"], Browse(1), Reader("manifest", One1)>>, 1, 1),
    Show(<<Pub(One1), Pub(Two2), Pub(Three3), Browse(2)>>, 0, 0),
    Show(<<Pub(One1), Tick1, Pub(Three3), Browse(1), [Pub(One1) EXCEPT !.unlisted = TRUE]>>, 0, 1),
    Show(<<[Pub(Two2) EXCEPT !.unlisted = TRUE], Browse(0), Reader("fetch", Two2), Reader("blob", Two2), Browse(9)>>, 1, 0),
    Show(<<Pub(One1), Browse(1), Browse(1), [Reader("blob", One1) EXCEPT !.hops = <<"x">>, !.real = "r"],
           [Reader("manifest", One1) EXCEPT !.hops = <<>>, !.real = "r"], [Reader("fetch", One1) EXCEPT !.hops = <<"">>]>>, 0, 0),
    Show(<<Reader("manifest", One1), Reader("manifest", One1), Reader("manifest", One1), Reader("blob", One1), Reader("blob", One1), Browse(1)>>, 0, 0),
    Show(<<[Reader("fetch", One1) EXCEPT !.have = {Lossy, Lossless, Extended}], Reader("fetch", One1), Reader("manifest", One1), Reader("blob", One1), Reader("fetch", One1), Reader("manifest", One1)>>, 0, 0)}
=============================================================================
