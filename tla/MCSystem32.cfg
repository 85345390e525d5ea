SPECIFICATION Spec
CONSTANT Parts = {"families", "handlers", "borrowers", "pairs", "listeners", "passed", "fat",
                  "windows", "resized", "programs", "taskbar", "start"}
CHECK_DEADLOCK FALSE
INVARIANTS
  RunsToTheEnd  MaskRestored 
   SleepersServed
   VolumeSound
   ShellFresh
