----------------------------- MODULE DataSplit ------------------------------
(***************************************************************************)
(* How the training set is shared out (tools/data.c): shuffle mixes images *)
(* and labels in memory, read_mnist then deals the shuffled files out to   *)
(* one pair of files for each device.  Sample i of the original files has  *)
(* image i; a byte in the place of a label is a sample's label, a pixel of *)
(* an image, or what was on the stack.                                     *)
(***************************************************************************)
EXTENDS Naturals, Sequences

CONSTANTS NumImages,  \* number_of_images
          NumSplits   \* n_splits

Sample == 1 .. NumImages
Stack == 0            \* in the place of an image or of a sample: none
Label(s) == [of |-> s, is |-> "label"]

VARIABLES images, labels,  \* image_buffer, label_buffer, then the files
          temp,            \* the image in the array temp
          i,               \* shuffle's index, then the splits written
          stage,           \* "shuffle" or "split"
          at,              \* position of both streams, in samples
          out              \* for each split written, its images and labels

vars == <<images, labels, temp, i, stage, at, out>>

Init ==
  /\ images = [s \in Sample |-> s]
  /\ labels = [s \in Sample |-> Label(s)]
  /\ temp = Stack
  /\ i = 1 /\ stage = "shuffle" /\ at = 0 /\ out = <<>>

\* One turn of the loop: temp_label is saved and never used, the label gets
\* the first byte of the array temp, the image is overwritten, not swapped.
Shuffle(target) ==
  /\ stage = "shuffle" /\ i < NumImages
  /\ labels' = [labels EXCEPT ![i] = [of |-> temp, is |-> "pixel"]]
  /\ temp' = images[i]
  /\ images' = [images EXCEPT ![i] = images[target]]
  /\ i' = i + 1
  /\ UNCHANGED <<stage, at, out>>

\* Both buffers are written out and opened again.
WriteShuffled ==
  /\ stage = "shuffle" /\ i = NumImages
  /\ stage' = "split" /\ i' = 0
  /\ UNCHANGED <<images, labels, temp, at, out>>

n_count == NumImages \div NumSplits

\* n_count times an fread from each stream.  One at the end of the stream
\* changes nothing, so that the last byte read is written again.
Read(stream, k) == IF k <= NumImages THEN stream[k] ELSE stream[NumImages]
WriteSplit ==
  /\ stage = "split" /\ i < NumSplits
  /\ out' = Append(out,
              [images |-> [k \in 1 .. n_count |-> Read(images, at + k)],
               labels |-> [k \in 1 .. n_count |-> Read(labels, at + k)]])
  /\ at' = IF at + n_count <= NumImages THEN at + n_count ELSE NumImages
  /\ i' = i + 1
  /\ UNCHANGED <<images, labels, temp, stage>>

Next ==
  \/ \E target \in Sample : Shuffle(target)
  \/ WriteShuffled
  \/ WriteSplit
  \/ stage = "split" /\ i = NumSplits /\ UNCHANGED vars

Spec == Init /\ [][Next]_vars
-----------------------------------------------------------------------------
\* report.tex:539: "the data is first shuffled and split equally into 50 sets
\* of 1200 labels": each image dealt to a device has its own label beside it.
SplitsKeepPairs ==
  \A j \in DOMAIN out : \A k \in DOMAIN out[j].images :
    out[j].labels[k] = Label(out[j].images[k])
=============================================================================
