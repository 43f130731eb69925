CONSTANTS
  MAC_LEN = 3
  Sources = {1, 2}
  FF = 255
SPECIFICATION Spec
INVARIANT FrameAfterLearning
