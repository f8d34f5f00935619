\* Two workers, four tasks, room for two: the queue fills, drops, empties, and
\* signals meet zero, one and two sleeping workers.
SPECIFICATION QueueSpec
CONSTANTS
  Workers = {w1, w2}
  Tasks = {t1, t2, t3, t4}
  MaxSize = 2
  NoTask = NoTask
INVARIANTS
  QueueTypeOK
  NoLostWakeup
  HandedOutOnce
PROPERTIES
  EveryTaskTaken
  ChannelSpec
