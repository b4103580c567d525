SPECIFICATION CourseFairSpec
INVARIANT CourseTypeOK
PROPERTIES
  ShockOfThisFlight
  AlarmEndsFlight
