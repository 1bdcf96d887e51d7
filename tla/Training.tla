------------------------------ MODULE Training ------------------------------
(***************************************************************************)
(* The loop in which a device trains (train.h): for each epoch and each    *)
(* whole batch of its samples, a gradient is computed on the batch and the *)
(* model is moved along it.  The batch is a slice of the samples' matrix,  *)
(* which is here where it begins; what is computed on it is left out.      *)
(***************************************************************************)
EXTENDS Integers

CONSTANTS NUM_EPOCHS, BATCH_SIZE

ASSUME TrainAssumption ==
  NUM_EPOCHS \in Nat \ {0} /\ BATCH_SIZE \in Nat \ {0}

VARIABLES n_images,   \* rows of TRAINER.samples
          step,       \* "out" of train, "loop", or "learn" from a slice
          epoch, batch,
          from,       \* first row of the slice; it has BATCH_SIZE rows
          learned     \* history: rows learned from in this epoch

train_vars == <<n_images, step, epoch, batch, from, learned>>

TrainInit ==
  /\ n_images = 0
  /\ step = "out" /\ epoch = 0 /\ batch = 0 /\ from = 0 /\ learned = 0

\* mutant: the last whole batch is left out
AllButLast == n_images \div BATCH_SIZE - 1
NUM_BATCHES == n_images \div BATCH_SIZE

BeginTraining ==
  /\ step = "out"
  /\ step' = "loop" /\ epoch' = 1 /\ batch' = 0 /\ learned' = 0
  /\ UNCHANGED <<n_images, from>>

BatchAsRow == batch                               \* mutant: not scaled
From == batch * BATCH_SIZE
\* mat_slice: BATCH_SIZE rows from the given one.
TakeBatch ==
  /\ step = "loop" /\ epoch <= NUM_EPOCHS /\ batch < NUM_BATCHES
  /\ from' = From
  /\ step' = "learn"
  /\ UNCHANGED <<n_images, epoch, batch, learned>>

\* nn_backprop reads each row of the slice, nn_learn moves the model.
Learn ==
  /\ step = "learn"
  /\ learned' = learned + BATCH_SIZE
  /\ batch' = batch + 1
  /\ step' = "loop"
  /\ UNCHANGED <<n_images, epoch, from>>

NextEpoch ==
  /\ step = "loop" /\ epoch <= NUM_EPOCHS /\ batch >= NUM_BATCHES
  /\ epoch' = epoch + 1 /\ batch' = 0 /\ learned' = 0
  /\ UNCHANGED <<n_images, step, from>>

\* What train's locals held is gone.
LeaveTrain ==
  /\ step' = "out" /\ epoch' = 0 /\ batch' = 0 /\ from' = 0 /\ learned' = 0

EndTraining ==
  /\ step = "loop" /\ epoch > NUM_EPOCHS
  /\ LeaveTrain
  /\ UNCHANGED n_images

TrainStep == TakeBatch \/ Learn \/ NextEpoch \/ EndTraining

\* init_train_set: the samples are set once, before any training.
SetSamples(n) ==
  /\ step = "out"
  /\ n_images' = n
  /\ UNCHANGED <<step, epoch, batch, from, learned>>

\* The emulator has ended; the next program starts from zero.
ForgetTraining == n_images' = 0 /\ LeaveTrain

TrainNext ==
  TrainStep \/ BeginTraining \/ ForgetTraining \/ \E n \in Nat : SetSamples(n)
TrainSpec == TrainInit /\ [][TrainNext]_train_vars
-----------------------------------------------------------------------------
\* The slice of a batch ends inside the samples, whatever their number; a
\* batch begins where the one before it ended.
BatchInside ==
  step = "learn" => from = learned /\ from + BATCH_SIZE <= n_images

\* An epoch leaves out fewer samples than make a batch.
EpochWhole ==
  [][step = "loop" /\ epoch' = epoch + 1
       => learned + BATCH_SIZE > n_images]_train_vars
=============================================================================
